---------------------------- MODULE Spec2Model ----------------------------
(***************************************************************************)
(* A model of Player (src/src/creatures/players/player.cpp): the slot      *)
(* inventory (queryAdd, hasCapacity, addThing, removeThing, the weight     *)
(* bookkeeping), queryDestination over the equipped containers, the        *)
(* progression engine (addSkillAdvance, addManaSpent, addExperience,       *)
(* removeExperience) and death.                                            *)
(*                                                                         *)
(* Each component has its own variables, initial condition and next-state  *)
(* relation; a component's specification leaves the other components'      *)
(* variables at their initial value.                                       *)
(***************************************************************************)
EXTENDS Integers, Naturals, Sequences, FiniteSets, TLC

VARIABLES
    \* ---- slot inventory ----
    classicSlots,     \* g_config CLASSIC_EQUIPMENT_SLOTS
    playerFlags,      \* subset of {"CannotPickupItem", "HasInfiniteCapacity"}
    capacity,         \* Player::capacity (+ bonusCapacity)
    inventory,        \* Player::inventory[slot]: an item or NoItem
    itemCount,        \* Item::count of every item object
    inventoryWeight,  \* Player::inventoryWeight
    q,                \* the queryAdd call in progress: its arguments and its result
    \* ---- containers and queryDestination ----
    contents,         \* Container::itemlist of every container item
    tradeItem,        \* Player::tradeItem
    dest,             \* the queryDestination call in progress: arguments and result
    \* ---- progression and death ----
    vocation,         \* Player::vocation (its id)
    level,            \* Player::level
    experience,       \* Player::experience
    levelPercent,     \* Player::levelPercent, in hundredths of a percent
    health,           \* Creature::health
    healthMax,        \* Creature::healthMax
    mana,             \* Player::mana
    manaMax,          \* Player::manaMax
    skull,            \* Creature::skull
    blessings,        \* the blessings held, a subset of 1..8
    skillLoss,        \* Creature::skillLoss
    skills,           \* Player::skills[skill] of one skill: level, tries, percent
    magic,            \* magLevel, manaSpent, magLevelPercent
    lastOp,           \* the last progression operation: its inputs and what it sent
    \* ---- scheduler tasks and attacks ----
    walkTask,         \* Player::walkTask: a task is held (TRUE) or nullptr (FALSE)
    walkTaskEvent,    \* Player::walkTaskEvent
    nextStepEvent,    \* Player::nextStepEvent
    actionTaskEvent,  \* Player::actionTaskEvent
    actionTaskEventPush,   \* Player::actionTaskEventPush
    actionPotionTaskEvent, \* Player::actionPotionTaskEvent
    inEventMovePush,  \* Player::inEventMovePush
    pending,          \* g_scheduler: the events added and neither stopped nor run
    lastEventId,      \* g_scheduler: the id the last addEvent returned
    calls,            \* the g_scheduler calls of the last operation, in order
    classicSpeed,     \* g_config CLASSIC_ATTACK_SPEED
    now,              \* OTSYS_TIME()
    lastAttack,       \* Player::lastAttack
    nextAction,       \* Player::nextAction
    attack,           \* the last doAttacking call: what it found and what it did
    \* ---- onThink: messages, skull, idle time and ping ----
    idleTime,         \* Player::idleTime
    MessageBufferCount,  \* Player::MessageBufferCount
    MessageBufferTicks,  \* Player::MessageBufferTicks
    muteCount,        \* Player::muteCountMap[guid], 0 when the guid is absent
    burst,            \* removeMessageBuffer calls since the buffer was empty, -1
                      \* once the buffer has decayed without getting empty
    skullTicks,       \* Player::skullTicks
    unjustifiedKills, \* Player::unjustifiedKills: the time of every kill
    unixTime,         \* time(nullptr), in seconds
    inFight,          \* hasCondition(CONDITION_INFIGHT)
    worldType,        \* g_game.getWorldType()
    tileFlags,        \* the flags of getTile()
    accessPlayer,     \* Player::isAccessPlayer()
    exerciseTraining, \* Player::isExerciseTraining()
    online,           \* the player has been neither logged out nor removed
    client,           \* Player::client is set
    lastPing,         \* Player::lastPing
    lastPong,         \* Player::lastPong
    attackedCreature, \* Creature::attackedCreature: none, a player, a monster
    isConnecting,     \* Player::isConnecting
    pzLocked,         \* Player::pzLocked
    think,            \* the last of these operations: what it found and did
    \* ---- blockHit ----
    worn,             \* the items in the slots whose abilities are enabled
    hit,              \* the last blockHit call: its arguments and its result
    \* ---- the removal of the player ----
    tradePartner,     \* Player::tradePartner is set
    party,            \* Player::party is set
    guild,            \* Player::guild is set
    position,         \* Creature::getPosition()
    loginPosition,    \* Player::loginPosition
    saveAttempts,     \* what every IOLoginData::savePlayer call returned, in order
    saveWarnings,     \* the number of "Error while saving player" warnings logged
    removal,          \* the last onRemoveCreature call: its arguments
    \* ---- storage, outfits and mounts ----
    storageMap,       \* Player::storageMap: the value of every key stored
    outfits,          \* Player::outfits: the list of lookType and addons
    familiars,        \* Player::familiars: the list of lookTypes
    store,            \* the last addStorageValue call: arguments and what it found
    wardrobe,         \* the last outfit operation and the one before it
    lookMount,        \* Player::defaultOutfit.lookMount
    speed,            \* the speed g_game.changeSpeed has given the player
    lastToggleMount,  \* Player::lastToggleMount
    wasMounted,       \* Player::wasMounted
    premium,          \* Player::isPremium()
    outfitCondition,  \* hasCondition(CONDITION_OUTFIT)
    ride,             \* the last mount operation and the one before it
    \* ---- the VIP list and the depot ----
    VIPList,          \* Player::VIPList: the guids in it
    vipStored,        \* the VIP entry the last operation had IOLoginData add
                      \* or remove
    maxVipEntries,    \* group->maxVipEntries
    buddy,            \* the last VIP operation: its arguments and its result
    depotBoxes,       \* g_config DEPOT_BOXES
    depotLockerMap,   \* Player::depotLockerMap: the item list of every locker
                      \* and of its depot chest, the front first
    depotChests,      \* Player::depotChests: the ids of the chests created
    parentOf,         \* the parent of the inbox and of every depot chest
    locker,           \* the last depot operation: its arguments
    \* ---- the rewards ----
    rewardChest,      \* Player::rewardChest: made or not
    rewards,          \* the Reward containers made so far: the date, the
                      \* reference counter and the parent of each
    rewardMap,        \* Player::rewardMap: reward id -> the Reward of rewards
    bounty,           \* the last reward operation: its arguments and result
    \* ---- the item references the player holds ----
    quickLootContainers, \* Player::quickLootContainers: category -> container
    quickLootFlags,   \* ITEM_ATTRIBUTE_QUICKLOOTCONTAINER of every container:
                      \* the categories of its bits
    writeItem,        \* Player::writeItem
    imbuing,          \* Player::imbuing
    openContainers,   \* Player::openContainers: client id -> container
    referenceCounter, \* Item::referenceCounter of every item
    worldRefs,        \* the references others than the player hold on it
    freedItems,       \* the items used after their deletion
    swap,             \* the last operation on a held reference
    places,           \* the parent of every container: another container,
                      \* the player, a tile next to the player, a tile or a
                      \* creature further away, or none for a removed one
    notice,           \* the last postRemoveNotification: its arguments, the
                      \* open containers before it and the client ids of
                      \* sendCloseContainer
    tradeState,       \* Player::tradeState
    deal,             \* the last notification of an item removed or updated
    armed,            \* the last getWeapon call: its argument and its result
    \* ---- the wheel of destiny ----
    wheelMajorStats,  \* the melee and the shield major stat
    wheelOfDestinyCreaturesNearby,
    wheelOnThinkTimer, \* the timer of WHEEL_OF_DESTINY_ONTHINK_BATTLE_INSTINCT
    instinct,         \* the last checkWheelOfDestinyBattleInstinct call
    \* ---- levels gained and lost ----
    trip,             \* the values before the last addExperience, and
                      \* whether removeExperience took the same amount back
    \* ---- the idle warning ----
    warning,          \* the one-minute warning was sent since idleTime
                      \* was last reset
    \* ---- the time a skull is worn ----
    skullTime         \* the days of the skull addUnjustifiedDead gave and
                      \* the think intervals since, in milliseconds

invVars == <<classicSlots, playerFlags, capacity, inventory, itemCount,
             inventoryWeight, q>>
destVars == <<contents, tradeItem, dest>>
progVars == <<vocation, level, experience, levelPercent, health, healthMax, mana,
              manaMax, skull, blessings, skillLoss, skills, magic, lastOp>>

laneVars == <<walkTask, walkTaskEvent, nextStepEvent, actionTaskEvent,
              actionTaskEventPush, actionPotionTaskEvent, inEventMovePush, pending,
              lastEventId, calls>>
attackVars == <<classicSpeed, now, lastAttack, nextAction, attack>>
schedVars == <<laneVars, attackVars>>
msgVars == <<MessageBufferCount, MessageBufferTicks, muteCount, burst>>
killVars == <<skullTicks, unjustifiedKills, unixTime, inFight, worldType>>
connVars == <<tileFlags, accessPlayer, exerciseTraining, online, client, lastPing,
              lastPong, attackedCreature, isConnecting, pzLocked>>
thinkVars == <<idleTime, msgVars, killVars, connVars, think>>
hitVars == <<worn, hit>>
removeVars == <<tradePartner, party, guild, position, loginPosition, saveAttempts,
                saveWarnings, removal>>
regVars == <<storageMap, outfits, familiars, store, wardrobe, lookMount, speed,
             lastToggleMount, wasMounted, premium, outfitCondition, ride>>
vipVars == <<VIPList, vipStored, maxVipEntries, buddy>>
depotVars == <<depotBoxes, depotLockerMap, depotChests, parentOf, locker>>
ownVars == <<vipVars, depotVars>>
rewardVars == <<rewardChest, rewards, rewardMap, bounty>>
refVars == <<quickLootContainers, quickLootFlags, writeItem, imbuing,
             openContainers, referenceCounter, worldRefs, freedItems, swap>>
openVars == <<places, notice>>
tradeVars == <<tradeState, deal>>
wheelVars == <<wheelMajorStats, wheelOfDestinyCreaturesNearby,
               wheelOnThinkTimer, instinct>>
lateVars == <<armed, wheelVars, trip, warning, skullTime>>
heldVars == <<rewardVars, refVars, openVars, tradeVars, lateVars>>
acctVars == <<removeVars, regVars, ownVars, heldVars>>
sessVars == <<schedVars, thinkVars, hitVars, acctVars>>

vars == <<invVars, destVars, progVars, sessVars>>

NoItem == "none"

-----------------------------------------------------------------------------
(* Bounds of the model *)

\* the largest count a stackable item object starts with
MaxCount == 2
\* the capacity the player starts with
MaxCapacity == 10
\* the most item objects the player holds in its slots at a time
MaxHeld == 2
\* the number of items a container holds at most (ItemType::maxItems)
MaxItems == 2
\* the health and the mana a player is created with
BaseHealth == 150
BaseMana == 55
\* the experience the player has at most
MaxExperience == 450
\* the levels from which the skill and the magic level cost curves are flat
MaxSkillLevel == 12
MaxMagLevel == 3
\* the damage of a hit that does not kill
DrainAmount == 75
\* the most tries or mana one call adds
MaxGain == 8
\* the amounts of experience one call adds or removes
ExpAmounts == {100, 400}
\* the number of events the scheduler is asked to add
MaxEvents == 3
\* OTSYS_TIME() at the start and the number of ticks it advances at most
StartTime == 10
MaxTicks == 2

\* the level no skill falls below
MinSkillLevel == 10

-----------------------------------------------------------------------------
(* Items.  Every Item object has the attributes of its ItemType (looked up *)
(* by id) and its own count.  slotPosition always holds a hand bit unless  *)
(* the type is restricted to one hand, as item types are loaded.           *)

ItemTypes ==
    [ sword    |-> [slotPosition |-> {"LEFT", "RIGHT"}, weaponType |-> "SWORD",
                    stackable |-> FALSE, pickupable |-> TRUE, container |-> FALSE,
                    baseWeight |-> 3, maxItems |-> 0],
      axe2h    |-> [slotPosition |-> {"LEFT", "RIGHT", "TWO_HAND"}, weaponType |-> "AXE",
                    stackable |-> FALSE, pickupable |-> TRUE, container |-> FALSE,
                    baseWeight |-> 5, maxItems |-> 0],
      bow      |-> [slotPosition |-> {"LEFT", "RIGHT", "TWO_HAND"}, weaponType |-> "DISTANCE",
                    stackable |-> FALSE, pickupable |-> TRUE, container |-> FALSE,
                    baseWeight |-> 3, maxItems |-> 0],
      quiver   |-> [slotPosition |-> {"RIGHT"}, weaponType |-> "QUIVER",
                    stackable |-> FALSE, pickupable |-> TRUE, container |-> TRUE,
                    baseWeight |-> 1, maxItems |-> MaxItems],
      shield   |-> [slotPosition |-> {"LEFT", "RIGHT"}, weaponType |-> "SHIELD",
                    stackable |-> FALSE, pickupable |-> TRUE, container |-> FALSE,
                    baseWeight |-> 4, maxItems |-> 0],
      club     |-> [slotPosition |-> {"LEFT", "RIGHT"}, weaponType |-> "CLUB",
                    stackable |-> FALSE, pickupable |-> TRUE, container |-> FALSE,
                    baseWeight |-> 2, maxItems |-> 0],
      arrow    |-> [slotPosition |-> {"LEFT", "RIGHT", "AMMO"}, weaponType |-> "AMMO",
                    stackable |-> TRUE, pickupable |-> TRUE, container |-> FALSE,
                    baseWeight |-> 1, maxItems |-> 0],
      helmet   |-> [slotPosition |-> {"LEFT", "RIGHT", "HEAD"}, weaponType |-> "NONE",
                    stackable |-> FALSE, pickupable |-> TRUE, container |-> FALSE,
                    baseWeight |-> 2, maxItems |-> 0],
      rock     |-> [slotPosition |-> {"LEFT", "RIGHT"}, weaponType |-> "NONE",
                    stackable |-> FALSE, pickupable |-> FALSE, container |-> FALSE,
                    baseWeight |-> 1, maxItems |-> 0],
      backpack |-> [slotPosition |-> {"LEFT", "RIGHT", "BACKPACK"}, weaponType |-> "NONE",
                    stackable |-> FALSE, pickupable |-> TRUE, container |-> TRUE,
                    baseWeight |-> 1, maxItems |-> MaxItems] ]

\* the Item objects of the model and the id of each
ItemIdOf ==
    [ sword |-> "sword", axe2h |-> "axe2h", bow |-> "bow", quiver |-> "quiver",
      shield |-> "shield", shieldB |-> "shield", club |-> "club",
      arrowsA |-> "arrow", arrowsB |-> "arrow", helmet |-> "helmet",
      rock |-> "rock",
      arrowsC |-> "arrow", arrowsD |-> "arrow", backpack |-> "backpack",
      bag |-> "backpack" ]

Items == DOMAIN ItemIdOf

\* the item objects that stay packed in containers or in the backpack slot
PackedItems == {"arrowsC", "arrowsD", "backpack", "bag"}
\* the item objects offered to the slots
SlotItems == Items \ PackedItems

getID(item) == ItemIdOf[item]
ItemTypeOf(item) == ItemTypes[getID(item)]
getSlotPosition(item) == ItemTypeOf(item).slotPosition
getWeaponTypeOf(item) == ItemTypeOf(item).weaponType
isStackable(item) == ItemTypeOf(item).stackable
isPickupable(item) == ItemTypeOf(item).pickupable
isContainerItem(item) == ItemTypeOf(item).container
getBaseWeight(item) == ItemTypeOf(item).baseWeight

Containers == {i \in Items : isContainerItem(i)}
capacityOf(container) == ItemTypeOf(container).maxItems

\* Item::getWeight: a container weighs itself and its contents, a stackable
\* item its base weight times its count.
RECURSIVE getWeight(_, _)
getWeight(item, counts) ==
    IF isContainerItem(item)
    THEN LET list == contents[item]
             RECURSIVE Sum(_)
             Sum(i) == IF i = 0 THEN 0 ELSE Sum(i - 1) + getWeight(list[i], counts)
         IN  getBaseWeight(item) + Sum(Len(list))
    ELSE IF isStackable(item) THEN getBaseWeight(item) * counts[item]
    ELSE getBaseWeight(item)

InitialCounts == [i \in Items |-> IF isStackable(i) THEN MaxCount ELSE 1]

-----------------------------------------------------------------------------
(* Slots *)

\* CONST_SLOT_FIRST .. CONST_SLOT_LAST, in order
SlotOrder == <<"HEAD", "NECKLACE", "BACKPACK", "ARMOR", "RIGHT", "LEFT",
               "LEGS", "FEET", "RING", "AMMO", "STORE_INBOX">>
Slots == {SlotOrder[i] : i \in 1..Len(SlotOrder)}

\* the index argument of queryAdd: a slot, CONST_SLOT_WHEREEVER (0), -1, or
\* a number that is no slot
Indexes == Slots \cup {"WHEREEVER", "MINUS1", "OUTOFRANGE"}

\* the indexes queryAdd is called with: no item of the model has the slot
\* position of a necklace, an armor, legs or feet, for which RING stands
QueryIndexes == Indexes \ {"NECKLACE", "ARMOR", "LEGS", "FEET", "BACKPACK"}

\* thing.getItem() is nullptr for a thing that is no item
NotAnItem == "creature"
Things == SlotItems \cup {NotAnItem}

QueryFlags == SUBSET {"NOLIMIT", "CHILDISOWNER"}

getInventoryItem(inv, slot) == IF slot \in Slots THEN inv[slot] ELSE NoItem

\* Item::getTopParent() == this: the item object is in a slot, or in a
\* container that is
HeldSlots(inv, item) == {s \in Slots : inv[s] = item}
RECURSIVE isHeld(_, _)
isHeld(inv, item) ==
    \/ HeldSlots(inv, item) # {}
    \/ \E c \in Containers :
         /\ \E i \in 1..Len(contents[c]) : contents[c][i] = item
         /\ isHeld(inv, c)

-----------------------------------------------------------------------------
(* Capacity *)

hasFlag(f) == f \in playerFlags

\* capacity + bonusCapacity - weight(inventory), never below 0; nothing can
\* be picked up by a player with CannotPickupItem.
FreeCapacity(cap, weight) ==
    IF hasFlag("CannotPickupItem") THEN 0
    ELSE IF cap > weight THEN cap - weight ELSE 0

getFreeCapacity == FreeCapacity(capacity, inventoryWeight)

\* Player::hasCapacity
hasCapacity(item, count) ==
    IF hasFlag("CannotPickupItem") THEN FALSE
    ELSE IF hasFlag("HasInfiniteCapacity") \/ isHeld(inventory, item) THEN TRUE
    ELSE LET w == IF isContainerItem(item) THEN getWeight(item, itemCount)
                  ELSE getBaseWeight(item)
             itemWeight == IF isStackable(item) THEN w * count ELSE w
         IN  itemWeight <= getFreeCapacity

-----------------------------------------------------------------------------
(* Player::queryAdd *)

DressSlots == {"HEAD", "NECKLACE", "BACKPACK", "ARMOR", "LEGS", "FEET", "RING"}

\* InitialRet without the test of CLASSIC_EQUIPMENT_SLOTS
InitialRetYourHand(item) ==
    LET slotPosition == getSlotPosition(item) IN
    IF slotPosition \cap DressSlots # {} THEN "CANNOTBEDRESSED"
    ELSE IF "TWO_HAND" \in slotPosition THEN "PUTTHISOBJECTINBOTHHANDS"
    ELSE IF "RIGHT" \in slotPosition \/ "LEFT" \in slotPosition
         THEN "PUTTHISOBJECTINYOURHAND"
    ELSE "NOERROR"

\* the value of ret before the switch on index
InitialRet(item) ==
    LET slotPosition == getSlotPosition(item) IN
    IF slotPosition \cap DressSlots # {} THEN "CANNOTBEDRESSED"
    ELSE IF "TWO_HAND" \in slotPosition THEN "PUTTHISOBJECTINBOTHHANDS"
    ELSE IF "RIGHT" \in slotPosition \/ "LEFT" \in slotPosition
         THEN IF ~classicSlots THEN "CANNOTBEDRESSED" ELSE "PUTTHISOBJECTINYOURHAND"
    ELSE "NOERROR"

\* two one-handed items, item coming to the hand opposite to other's
\* (classic equipment slots)
ClassicPair(item, count, other) ==
    LET type == getWeaponTypeOf(item)
        otherType == getWeaponTypeOf(other)
    IN  IF "TWO_HAND" \in getSlotPosition(other) THEN "DROPTWOHANDEDITEM"
        ELSE IF item = other /\ count = itemCount[item] THEN "NOERROR"
        ELSE IF otherType = "SHIELD" /\ type = "SHIELD" THEN "CANONLYUSEONESHIELD"
        ELSE IF \/ otherType \in {"NONE", "SHIELD", "AMMO"}
                \/ type \in {"NONE", "SHIELD", "AMMO"}
             THEN "NOERROR"
        ELSE "CANONLYUSEONEWEAPON"

\* case CONST_SLOT_RIGHT
QueryRight(item, count, ret) ==
    LET slotPosition == getSlotPosition(item)
        leftItem == inventory["LEFT"]
    IN  IF "RIGHT" \notin slotPosition THEN ret
        ELSE IF ~classicSlots
        THEN IF getWeaponTypeOf(item) \notin {"SHIELD", "QUIVER"} THEN "CANNOTBEDRESSED"
             ELSE IF leftItem = NoItem THEN "NOERROR"
             ELSE IF "TWO_HAND" \in (getSlotPosition(leftItem) \cup slotPosition)
                  THEN IF /\ getWeaponTypeOf(item) = "QUIVER"
                          /\ getWeaponTypeOf(leftItem) = "DISTANCE"
                       THEN "NOERROR"
                       ELSE "BOTHHANDSNEEDTOBEFREE"
             ELSE "NOERROR"
        ELSE IF "TWO_HAND" \in slotPosition
        THEN IF leftItem # NoItem /\ leftItem # item
             THEN "BOTHHANDSNEEDTOBEFREE" ELSE "NOERROR"
        ELSE IF leftItem # NoItem THEN ClassicPair(item, count, leftItem)
        ELSE "NOERROR"

\* QueryLeft without the look at the right hand for a two-handed item
QueryLeftNoRightCheck(item, count, ret) ==
    LET slotPosition == getSlotPosition(item)
        rightItem == inventory["RIGHT"]
        type == getWeaponTypeOf(item)
    IN  IF "LEFT" \notin slotPosition THEN ret
        ELSE IF ~classicSlots
        THEN IF type \in {"NONE", "SHIELD", "AMMO"} THEN "CANNOTBEDRESSED"
             ELSE "NOERROR"
        ELSE IF "TWO_HAND" \in slotPosition THEN "NOERROR"
        ELSE IF rightItem # NoItem THEN ClassicPair(item, count, rightItem)
        ELSE "NOERROR"

\* QueryLeft with the distance weapon + quiver exception made in both modes
QueryLeftQuiverAlways(item, count, ret) ==
    LET slotPosition == getSlotPosition(item)
        rightItem == inventory["RIGHT"]
        type == getWeaponTypeOf(item)
    IN  IF "LEFT" \notin slotPosition THEN ret
        ELSE IF ~classicSlots /\ type \in {"NONE", "SHIELD", "AMMO"} THEN "CANNOTBEDRESSED"
        ELSE IF "TWO_HAND" \in slotPosition \/ ~classicSlots
        THEN IF rightItem # NoItem /\ rightItem # item /\ "TWO_HAND" \in slotPosition
             THEN IF type = "DISTANCE" /\ getWeaponTypeOf(rightItem) = "QUIVER"
                  THEN "NOERROR"
                  ELSE "BOTHHANDSNEEDTOBEFREE"
             ELSE "NOERROR"
        ELSE IF rightItem # NoItem THEN ClassicPair(item, count, rightItem)
        ELSE "NOERROR"

\* case CONST_SLOT_LEFT
QueryLeft(item, count, ret) ==
    LET slotPosition == getSlotPosition(item)
        rightItem == inventory["RIGHT"]
        type == getWeaponTypeOf(item)
    IN  IF "LEFT" \notin slotPosition THEN ret
        ELSE IF ~classicSlots
        THEN IF type \in {"NONE", "SHIELD", "AMMO"} THEN "CANNOTBEDRESSED"
             ELSE IF rightItem # NoItem /\ "TWO_HAND" \in slotPosition
                  THEN IF type = "DISTANCE" /\ getWeaponTypeOf(rightItem) = "QUIVER"
                       THEN "NOERROR"
                       ELSE "BOTHHANDSNEEDTOBEFREE"
             ELSE "NOERROR"
        ELSE IF "TWO_HAND" \in slotPosition
        THEN IF rightItem # NoItem /\ rightItem # item
             THEN "BOTHHANDSNEEDTOBEFREE" ELSE "NOERROR"
        ELSE IF rightItem # NoItem THEN ClassicPair(item, count, rightItem)
        ELSE "NOERROR"

\* the switch on index: ret after the slot-type checks
SlotTypeCheck(index, item, count) ==
    LET slotPosition == getSlotPosition(item)
        ret == InitialRet(item)
    IN  CASE index \in DressSlots ->
                IF index \in slotPosition THEN "NOERROR" ELSE ret
          [] index = "RIGHT" -> QueryRight(item, count, ret)
          [] index = "LEFT" -> QueryLeft(item, count, ret)
          [] index = "AMMO" ->
                IF "AMMO" \in slotPosition \/ classicSlots THEN "NOERROR" ELSE ret
          [] index \in {"WHEREEVER", "MINUS1"} -> "NOTENOUGHROOM"
          [] OTHER -> "NOTPOSSIBLE"

\* need an exchange with source?
NeedExchange(index, item) ==
    LET inventoryItem == getInventoryItem(inventory, index) IN
    /\ inventoryItem # NoItem
    /\ (~isStackable(inventoryItem) \/ getID(inventoryItem) # getID(item))

\* AfterTypeCheck with the capacity checked before the exchange
AfterTypeCheckCapacityFirst(index, item, count, hookOk, ret) ==
    IF ~hasCapacity(item, count) THEN [ret |-> "NOTENOUGHCAPACITY", hook |-> FALSE]
    ELSE IF NeedExchange(index, item) THEN [ret |-> "NEEDEXCHANGE", hook |-> FALSE]
    ELSE IF ~hookOk THEN [ret |-> "CANNOTBEDRESSED", hook |-> TRUE]
    ELSE [ret |-> ret, hook |-> TRUE]

\* the checks made once the slot-type checks passed: exchange, capacity and
\* the equip hook (g_moveEvents->onPlayerEquip, which answers hookOk)
AfterTypeCheck(index, item, count, hookOk, ret) ==
    IF NeedExchange(index, item) THEN [ret |-> "NEEDEXCHANGE", hook |-> FALSE]
    ELSE IF ~hasCapacity(item, count) THEN [ret |-> "NOTENOUGHCAPACITY", hook |-> FALSE]
    ELSE IF ~hookOk THEN [ret |-> "CANNOTBEDRESSED", hook |-> TRUE]
    ELSE [ret |-> ret, hook |-> TRUE]

\* a child container is querying the player, just check if enough capacity
ChildIsOwner(item, count, flags) ==
    IF "NOLIMIT" \in flags \/ hasCapacity(item, count)
    THEN "NOERROR" ELSE "NOTENOUGHCAPACITY"

\* the returned value, and whether the equip hook was invoked
queryAdd(index, thing, count, flags, hookOk) ==
    IF thing = NotAnItem THEN [ret |-> "NOTPOSSIBLE", hook |-> FALSE]
    ELSE IF "CHILDISOWNER" \in flags
         THEN [ret |-> ChildIsOwner(thing, count, flags), hook |-> FALSE]
    ELSE IF ~isPickupable(thing) THEN [ret |-> "CANNOTPICKUP", hook |-> FALSE]
    ELSE LET ret == SlotTypeCheck(index, thing, count) IN
         IF ret \in {"NOERROR", "NOTENOUGHROOM"}
         THEN AfterTypeCheck(index, thing, count, hookOk, ret)
         ELSE [ret |-> ret, hook |-> FALSE]

-----------------------------------------------------------------------------
(* The inventory's operations *)

NoQuery == [index |-> "OUTOFRANGE", thing |-> NotAnItem, count |-> 0, flags |-> {},
            ret |-> "NONE", hook |-> FALSE]

\* no progression operation has been made
NoOp == [op |-> "none"]

\* the progression of a player that has just been created
StatsAtRest ==
    /\ vocation = "NONE"
    /\ level = 1
    /\ experience = 0
    /\ levelPercent = 0
    /\ healthMax = BaseHealth
    /\ health = BaseHealth
    /\ manaMax = BaseMana
    /\ mana = BaseMana
    /\ blessings = {}
    /\ skillLoss = TRUE
    /\ skills = [level |-> MinSkillLevel, tries |-> 0, percent |-> 0]
    /\ magic = [magLevel |-> 0, manaSpent |-> 0, magLevelPercent |-> 0]
    /\ lastOp = NoOp

ProgressionAtRest ==
    /\ StatsAtRest
    /\ skull = "NONE"

\* no doAttacking call yet
NoAttack == [op |-> "none"]

\* no task held or scheduled, no attack made
SchedulerAtRest ==
    /\ walkTask = FALSE
    /\ walkTaskEvent = 0
    /\ nextStepEvent = 0
    /\ actionTaskEvent = 0
    /\ actionTaskEventPush = 0
    /\ actionPotionTaskEvent = 0
    /\ inEventMovePush = FALSE
    /\ pending = {}
    /\ lastEventId = 0
    /\ calls = <<>>
    /\ classicSpeed = FALSE
    /\ now = StartTime
    /\ lastAttack = 0
    /\ nextAction = 0
    /\ attack = NoAttack

\* none of the operations around onThink yet
NoThink == [op |-> "none"]

\* no message sent, nobody killed
MessagesAtRest ==
    /\ MessageBufferCount = 0
    /\ MessageBufferTicks = 0
    /\ muteCount = 0
    /\ burst = 0

KillsAtRest ==
    /\ skullTicks = 0
    /\ unjustifiedKills = <<>>
    /\ unixTime = 0
    /\ inFight = FALSE
    /\ worldType = "PVP"

\* a player who has just logged in, attacks nobody and may log out
ConnectionAtRest ==
    /\ accessPlayer = FALSE
    /\ exerciseTraining = FALSE
    /\ online = TRUE
    /\ client = TRUE
    /\ lastPing = StartTime
    /\ lastPong = StartTime
    /\ attackedCreature = "none"
    /\ isConnecting = FALSE
    /\ pzLocked = FALSE

ThinkAtRest ==
    /\ idleTime = 0
    /\ MessagesAtRest
    /\ KillsAtRest
    /\ tileFlags = {}
    /\ ConnectionAtRest
    /\ think = NoThink

\* no blockHit call yet
NoHit == [op |-> "none"]

HitAtRest ==
    /\ worn = <<>>
    /\ hit = NoHit

\* no onRemoveCreature call yet
NoRemoval == [op |-> "none"]

\* a player alone at the login position, never saved
RemovalAtRest ==
    /\ tradePartner = FALSE
    /\ party = FALSE
    /\ guild = FALSE
    /\ position = 1
    /\ loginPosition = 1
    /\ saveAttempts = <<>>
    /\ saveWarnings = 0
    /\ removal = NoRemoval

\* the speed of a player on foot
BaseSpeed == 220

\* no storage, outfit or mount operation yet
NoStore == [op |-> "none"]
NoWardrobe == [op |-> "none"]
NoRide == [op |-> "none"]

\* nothing stored, no outfit, no mount, on foot
RegistryAtRest ==
    /\ storageMap = [k \in {} |-> 0]
    /\ outfits = <<>>
    /\ familiars = <<>>
    /\ store = NoStore
    /\ wardrobe = NoWardrobe
    /\ lookMount = 0
    /\ speed = BaseSpeed
    /\ lastToggleMount = 0
    /\ wasMounted = FALSE
    /\ premium = FALSE
    /\ outfitCondition = FALSE
    /\ ride = NoRide

\* no VIP and no depot operation yet
NoBuddy == [op |-> "none"]
NoEntry == [op |-> "none"]
NoLocker == [op |-> "none"]

\* an empty VIP list in a group without a maximum of its own
VipAtRest ==
    /\ VIPList = {}
    /\ vipStored = NoEntry
    /\ maxVipEntries = 0
    /\ buddy = NoBuddy

\* no depot locker and no depot chest made yet, the inbox without a parent
DepotAtRest ==
    /\ depotBoxes = 1
    /\ depotLockerMap = [d \in {} |-> 0]
    /\ depotChests = {}
    /\ parentOf = [t \in {<<"inbox", 0>>} |-> <<"none", 0>>]
    /\ locker = NoLocker

OwnedAtRest ==
    /\ VipAtRest
    /\ DepotAtRest

\* no reward operation yet
NoBounty == [op |-> "none"]

\* no reward chest and no reward yet
RewardAtRest ==
    /\ rewardChest = FALSE
    /\ rewards = <<>>
    /\ rewardMap = [r \in {} |-> 0]
    /\ bounty = NoBounty

\* no operation on a held reference yet
NoSwap == [op |-> "none"]

\* the items the player may hold a reference on: two containers of the game
\* world and the container made for browsing a field, which nothing but the
\* players that have it open refers to
HeldItems == {"bag", "pack", "field"}
WorldRefsAtStart == [i \in HeldItems |-> IF i = "field" THEN 0 ELSE 1]

\* nothing bound: no loot container, no item written or imbued, no container
\* open
RefsAtRest ==
    /\ quickLootContainers = [c \in {} |-> NoItem]
    /\ quickLootFlags = [i \in HeldItems |-> {}]
    /\ writeItem = NoItem
    /\ imbuing = NoItem
    /\ openContainers = [c \in {} |-> NoItem]
    /\ referenceCounter = WorldRefsAtStart
    /\ worldRefs = WorldRefsAtStart
    /\ freedItems = {}
    /\ swap = NoSwap

\* no notification yet
NoNotice == [op |-> "none"]

\* the containers a player may have open: those a reference may be held on
\* and one more to nest
OpenItems == HeldItems \cup {"pouch"}

\* every container on a tile next to the player
OpenAtRest ==
    /\ places = [c \in OpenItems |-> "near"]
    /\ notice = NoNotice

\* no notification of an item yet
NoDeal == [op |-> "none"]

\* no trade
TradeAtRest ==
    /\ tradeState = "TRADE_NONE"
    /\ deal = NoDeal

\* no getWeapon and no battle instinct call yet
NoArmed == [op |-> "none"]
NoInstinct == [op |-> "none"]

\* no skull given by addUnjustifiedDead yet
NoSkullTime == [assigned |-> FALSE]

\* no level gained or lost yet
NoTrip == [phase |-> "none", n |-> 0]

\* no major stat from the wheel
WheelAtRest ==
    /\ wheelMajorStats = [melee |-> 0, shield |-> 0]
    /\ wheelOfDestinyCreaturesNearby = 0
    /\ wheelOnThinkTimer = 0
    /\ instinct = NoInstinct

LateAtRest ==
    /\ armed = NoArmed
    /\ WheelAtRest
    /\ trip = NoTrip
    /\ warning = FALSE
    /\ skullTime = NoSkullTime

HeldAtRest ==
    /\ RewardAtRest
    /\ RefsAtRest
    /\ OpenAtRest
    /\ TradeAtRest
    /\ LateAtRest

AccountAtRest ==
    /\ RemovalAtRest
    /\ RegistryAtRest
    /\ OwnedAtRest
    /\ HeldAtRest

SessionAtRest ==
    /\ SchedulerAtRest
    /\ ThinkAtRest
    /\ HitAtRest
    /\ AccountAtRest

\* no queryDestination call in progress
NoDest == [index |-> "OUTOFRANGE", thing |-> NotAnItem, flags |-> {}, accepts |-> {},
           hookOk |-> FALSE, cylinder |-> "none", to |-> "OUTOFRANGE",
           destItem |-> NoItem]

\* Player::updateInventoryWeight, over the slots inv
SlotWeights(inv, counts) ==
    LET RECURSIVE Sum(_)
        Sum(i) == IF i = 0 THEN 0
                  ELSE Sum(i - 1) + (IF inv[SlotOrder[i]] = NoItem THEN 0
                                     ELSE getWeight(inv[SlotOrder[i]], counts))
    IN  Sum(Len(SlotOrder))

updateInventoryWeight(inv, counts) ==
    IF hasFlag("HasInfiniteCapacity") THEN inventoryWeight
    ELSE SlotWeights(inv, counts)

\* addThing that leaves an occupied slot alone
addThingIfEmpty(inv, index, thing) ==
    IF index \notin Slots \/ thing = NotAnItem \/ inv[index] # NoItem THEN inv
    ELSE [inv EXCEPT ![index] = thing]

\* Player::addThing: the slot array after the call
addThing(inv, index, thing) ==
    IF index \notin Slots \/ thing = NotAnItem THEN inv
    ELSE [inv EXCEPT ![index] = thing]

\* Player::removeThing of the whole item: the slot array after the call
removeWhole(inv, item) ==
    [s \in Slots |-> IF inv[s] = item THEN NoItem ELSE inv[s]]

InitInventory ==
    /\ SessionAtRest
    /\ classicSlots \in BOOLEAN
    /\ playerFlags \in {{}, {"HasInfiniteCapacity"}, {"CannotPickupItem"}}
    /\ capacity = MaxCapacity
    /\ inventory = [s \in Slots |-> NoItem]
    /\ itemCount = InitialCounts
    /\ inventoryWeight = 0
    /\ q = NoQuery
    /\ contents = [c \in Containers |-> IF c = "quiver" THEN <<"arrowsC">> ELSE <<>>]
    /\ tradeItem = NoItem
    /\ dest = NoDest
    /\ ProgressionAtRest

\* a call of queryAdd; the hook's answer is recorded only when it was asked
PlayerQueryAdd ==
    /\ q = NoQuery
    /\ \E index \in QueryIndexes, thing \in Things, flags \in QueryFlags, hookOk \in BOOLEAN :
      \E count \in 1..(IF thing \in Items THEN itemCount[thing] ELSE 1) :
        LET r == queryAdd(index, thing, count, flags, hookOk) IN
        /\ (~r.hook => hookOk)
        /\ q' = [index |-> index, thing |-> thing, count |-> count, flags |-> flags,
                 ret |-> r.ret, hook |-> r.hook]
        /\ UNCHANGED <<classicSlots, playerFlags, capacity, inventory, itemCount,
                       inventoryWeight, destVars, sessVars, progVars>>

\* the caller of queryAdd goes no further (the value was not ok, or it only
\* asked)
PlayerQueryReturn ==
    /\ q # NoQuery
    /\ q' = NoQuery
    /\ UNCHANGED <<classicSlots, playerFlags, capacity, inventory, itemCount,
                   inventoryWeight, destVars, sessVars, progVars>>

\* queryAdd returned ok for the slot: the item is taken from the slot it was
\* in, if any (removeThing and its notification), then addThing puts it in
\* the slot and postAddNotification updates the weight.
PlayerAddThing ==
    /\ q.ret = "NOERROR"
    /\ "CHILDISOWNER" \notin q.flags
    /\ Cardinality({s \in Slots : inventory[s] # NoItem /\ inventory[s] # q.thing}) < MaxHeld
    /\ LET item == q.thing
           taken == removeWhole(inventory, item)
           inv2 == addThing(taken, q.index, item)
       IN  /\ inventory' = inv2
           /\ inventoryWeight' = updateInventoryWeight(inv2, itemCount)
    /\ q' = NoQuery
    /\ UNCHANGED <<classicSlots, playerFlags, capacity, itemCount, destVars, sessVars, progVars>>

\* Player::removeThing(thing, count) and postRemoveNotification
PlayerRemoveThing ==
    \E item \in Items :
      \E count \in 1..itemCount[item] :
        /\ q = NoQuery
        /\ HeldSlots(inventory, item) # {}
        /\ IF isStackable(item) /\ count # itemCount[item]
           THEN /\ itemCount' = [itemCount EXCEPT ![item] = itemCount[item] - count]
                /\ inventory' = inventory
           ELSE /\ itemCount' = itemCount
                /\ inventory' = removeWhole(inventory, item)
        /\ inventoryWeight' = updateInventoryWeight(inventory', itemCount')
        /\ UNCHANGED <<classicSlots, playerFlags, capacity, q, destVars, sessVars, progVars>>

NextInventory ==
    PlayerQueryAdd \/ PlayerQueryReturn \/ PlayerAddThing \/ PlayerRemoveThing

SpecInventory == InitInventory /\ [][NextInventory]_vars

-----------------------------------------------------------------------------
(* The slot inventory's properties *)

isTwoHanded(item) == item # NoItem /\ "TWO_HAND" \in getSlotPosition(item)

\* the queryAdd call in progress targets a slot directly with an item that
\* can be picked up
SlotQuery ==
    /\ q # NoQuery
    /\ q.thing \in Items
    /\ "CHILDISOWNER" \notin q.flags
    /\ isPickupable(q.thing)

\* C1: in both CLASSIC_EQUIPMENT_SLOTS modes, when items come into the hand
\* slots only after queryAdd returned ok for the slot: a two-handed item in
\* the left slot has the right slot empty, unless the left item is a
\* distance weapon and the right item a quiver.
C1_TwoHandedLeftAlone ==
    isTwoHanded(inventory["LEFT"]) =>
        \/ inventory["RIGHT"] = NoItem
        \/ /\ getWeaponTypeOf(inventory["LEFT"]) = "DISTANCE"
           /\ getWeaponTypeOf(inventory["RIGHT"]) = "QUIVER"

\* a two-handed distance weapon in the left hand beside a quiver
C1_Witness ==
    /\ isTwoHanded(inventory["LEFT"])
    /\ inventory["RIGHT"] # NoItem
    /\ getWeaponTypeOf(inventory["RIGHT"]) = "QUIVER"

\* queryAdd(CONST_SLOT_LEFT, item) for a two-handed item while the right
\* slot holds another item
TwoHandedToLeftQuery ==
    /\ SlotQuery
    /\ q.flags = {}
    /\ q.index = "LEFT"
    /\ {"LEFT", "TWO_HAND"} \subseteq getSlotPosition(q.thing)
    /\ inventory["RIGHT"] \notin {NoItem, q.thing}

DistanceWithQuiver ==
    /\ getWeaponTypeOf(q.thing) = "DISTANCE"
    /\ getWeaponTypeOf(inventory["RIGHT"]) = "QUIVER"

\* what the checks after the slot-type checks may still answer
AcceptedByTypeCheck ==
    \/ q.ret = "NOERROR"
    \/ q.ret = "NEEDEXCHANGE" /\ NeedExchange(q.index, q.thing)
    \/ q.ret = "NOTENOUGHCAPACITY" /\ ~hasCapacity(q.thing, q.count)
    \/ q.ret = "CANNOTBEDRESSED" /\ q.hook

SpecReturnValues ==
    {"NOERROR", "CANNOTBEDRESSED", "PUTTHISOBJECTINBOTHHANDS",
     "BOTHHANDSNEEDTOBEFREE", "CANONLYUSEONESHIELD", "CANONLYUSEONEWEAPON",
     "NEEDEXCHANGE", "NOTENOUGHCAPACITY", "CANNOTPICKUP", "NOTPOSSIBLE"}

\* C3 as stated: queryAdd returns one of ok, cannot-be-dressed,
\* put-in-both-hands, both-hands-must-be-free, only-one-shield,
\* only-one-weapon, need-exchange, not-enough-capacity, cannot-pickup,
\* not-possible.
C3_ListedValues == q # NoQuery => q.ret \in SpecReturnValues

\* C3, amended: queryAdd returns one of the listed values or one of
\* put-in-your-hand, drop-two-handed-item (both only with classic slots, for
\* an item with a hand slot position) and not-enough-room (only for index
\* WHEREEVER or -1).
C3_AllValues ==
    q # NoQuery =>
        /\ q.ret \in SpecReturnValues \cup
                     {"PUTTHISOBJECTINYOURHAND", "DROPTWOHANDEDITEM", "NOTENOUGHROOM"}
        /\ q.ret \in {"PUTTHISOBJECTINYOURHAND", "DROPTWOHANDEDITEM"} =>
               /\ classicSlots
               /\ SlotQuery
               /\ getSlotPosition(q.thing) \cap {"LEFT", "RIGHT"} # {}
        /\ q.ret = "DROPTWOHANDEDITEM" => q.index \in {"LEFT", "RIGHT"}
        /\ q.ret = "NOTENOUGHROOM" => q.index \in {"WHEREEVER", "MINUS1"}

\* a call that returned a value outside the listed ones
C3_Witness ==
    /\ q # NoQuery
    /\ q.ret = "DROPTWOHANDEDITEM"
    /\ isTwoHanded(inventory["LEFT"])

\* the weight hasCapacity compares with the free capacity
QueriedWeight(item, count) ==
    (IF isContainerItem(item) THEN getWeight(item, itemCount) ELSE getBaseWeight(item))
        * (IF isStackable(item) THEN count ELSE 1)

\* C4: with FLAG_NOLIMIT queryAdd never returns not-enough-capacity, for a
\* child container's query and for a slot alike; without it, when the
\* slot-type checks pass (and no exchange is needed) an item not yet carried
\* that weighs more than the free capacity gets not-enough-capacity.
C4_NoLimitSkipsCapacity ==
    (q # NoQuery /\ q.thing \in Items /\ ~hasFlag("CannotPickupItem")) =>
        /\ "NOLIMIT" \in q.flags => q.ret # "NOTENOUGHCAPACITY"
        /\ ( /\ q.flags = {}
             /\ isPickupable(q.thing)
             /\ SlotTypeCheck(q.index, q.thing, q.count) = "NOERROR"
             /\ ~NeedExchange(q.index, q.thing)
             /\ ~hasFlag("HasInfiniteCapacity")
             /\ ~isHeld(inventory, q.thing)
             /\ QueriedWeight(q.thing, q.count) > getFreeCapacity )
           => q.ret = "NOTENOUGHCAPACITY"

\* C5: when the slot-type checks pass and the slot holds an item that is not
\* stackable or has another id, queryAdd returns need-exchange, whatever the
\* capacity, and the equip hook is not invoked.
C5_NeedExchangeFirst ==
    ( /\ SlotQuery
      /\ SlotTypeCheck(q.index, q.thing, q.count) \in {"NOERROR", "NOTENOUGHROOM"}
      /\ getInventoryItem(inventory, q.index) # NoItem
      /\ \/ ~isStackable(getInventoryItem(inventory, q.index))
         \/ getID(getInventoryItem(inventory, q.index)) # getID(q.thing) )
    => (q.ret = "NEEDEXCHANGE" /\ ~q.hook)

\* need-exchange for an item the player has no capacity for
C5_Witness ==
    /\ SlotQuery
    /\ q.ret = "NEEDEXCHANGE"
    /\ ~q.hook
    /\ ~hasCapacity(q.thing, q.count)
    /\ ~hasFlag("CannotPickupItem")

\* the slot the added item came from, if it was in one
CameFrom(s) == inventory[s] = q.thing

\* C6 as stated: after queryAdd returned ok, addThing and its notification
\* leave the thing in the slot, lose no item the slot held, and the free
\* capacity has decreased by the item's weight unless FLAG_NOLIMIT was used.
C6_AddThingAsStated ==
    [][PlayerAddThing =>
         /\ inventory'[q.index] = q.thing
         /\ inventory[q.index] \in {NoItem, q.thing}
         /\ \/ "NOLIMIT" \in q.flags
            \/ FreeCapacity(capacity', inventoryWeight')
                 = getFreeCapacity - getWeight(q.thing, itemCount)]_vars

\* C6, amended: the thing is in the slot and every other slot holds what it
\* held, but for the slot the thing came from; a stack of the same id that
\* the slot held is replaced; for a player without HasInfiniteCapacity, when
\* the slot was empty and the thing was in none of the player's slots, the
\* inventory weight has grown by the item's weight, and the free capacity
\* has decreased by it when the whole count was queried; with or without
\* FLAG_NOLIMIT.
C6_AddThing ==
    [][PlayerAddThing =>
         /\ inventory'[q.index] = q.thing
         /\ \A s \in Slots \ {q.index} :
              inventory'[s] = (IF CameFrom(s) THEN NoItem ELSE inventory[s])
         /\ inventory[q.index] # NoItem =>
              /\ isStackable(inventory[q.index])
              /\ getID(inventory[q.index]) = getID(q.thing)
         /\ ( /\ ~hasFlag("HasInfiniteCapacity")
              /\ inventory[q.index] = NoItem
              /\ ~isHeld(inventory, q.thing) )
            => /\ inventoryWeight' = inventoryWeight + getWeight(q.thing, itemCount)
               /\ q.count = itemCount[q.thing] =>
                    FreeCapacity(capacity', inventoryWeight')
                      = getFreeCapacity - getWeight(q.thing, itemCount)
         /\ hasFlag("HasInfiniteCapacity") => inventoryWeight' = inventoryWeight]_vars

\* an item was added to an empty slot and weighs on the player
C6_Witness ==
    /\ q = NoQuery
    /\ inventory["HEAD"] = "helmet"
    /\ inventoryWeight = getWeight("helmet", itemCount)
    /\ getFreeCapacity = capacity - getWeight("helmet", itemCount)

-----------------------------------------------------------------------------
(* Player::queryDestination *)

\* a stack can take more while its count is below this
StackLimit == 100

\* the position of CONST_SLOT_AMMO in SlotOrder
AmmoPos == 10

DestFlags == {{}, {"IGNOREAUTOSTACK"}, {"NOLIMIT"}}
autoStackOf(flags) == "IGNOREAUTOSTACK" \notin flags

\* Item::equals
equals(a, b) == getID(a) = getID(b)

\* the sub-containers among the items of a list, in order
RECURSIVE SubContainers(_)
SubContainers(list) ==
    IF list = <<>> THEN <<>>
    ELSE (IF isContainerItem(Head(list)) THEN <<Head(list)>> ELSE <<>>)
         \o SubContainers(Tail(list))

Found(cylinder, to, destItem) ==
    [found |-> TRUE, cylinder |-> cylinder, to |-> to, destItem |-> destItem]

\* the loop over the slots CONST_SLOT_FIRST..CONST_SLOT_AMMO, from position i
\* on, with the containers collected so far
RECURSIVE SlotScan(_, _, _, _, _)
SlotScan(i, item, flags, hookOk, containers) ==
    IF i > AmmoPos THEN [found |-> FALSE, containers |-> containers]
    ELSE
      LET slotIndex == SlotOrder[i]
          inventoryItem == inventory[slotIndex]
          pushed == IF isContainerItem(inventoryItem)
                    THEN Append(containers, inventoryItem) ELSE containers
      IN  IF inventoryItem # NoItem
          THEN IF inventoryItem = tradeItem \/ inventoryItem = item
               THEN SlotScan(i + 1, item, flags, hookOk, containers)
               ELSE IF /\ autoStackOf(flags) /\ isStackable(item)
                       /\ queryAdd(slotIndex, item, itemCount[item], {}, hookOk).ret
                            = "NOERROR"
                       /\ equals(inventoryItem, item)
                       /\ itemCount[inventoryItem] < StackLimit
                    THEN Found("player", slotIndex, inventoryItem)
                    ELSE SlotScan(i + 1, item, flags, hookOk, pushed)
          ELSE IF queryAdd(slotIndex, item, itemCount[item],
                           flags \ {"IGNOREAUTOSTACK"}, hookOk).ret = "NOERROR"
               THEN Found("player", slotIndex, NoItem)
               ELSE SlotScan(i + 1, item, flags, hookOk, containers)

\* ItemScan that does not pass over the item itself
RECURSIVE ItemScanItself(_, _, _, _, _)
ItemScanItself(list, k, n, item, subs) ==
    IF k > Len(list) THEN [found |-> FALSE, n |-> n, subs |-> subs]
    ELSE LET tmpItem == list[k] IN
         IF tmpItem = tradeItem
         THEN ItemScanItself(list, k + 1, n, item, subs)
         ELSE IF equals(tmpItem, item) /\ itemCount[tmpItem] < StackLimit
         THEN [found |-> TRUE, n |-> n, destItem |-> tmpItem]
         ELSE ItemScanItself(list, k + 1, n + 1, item,
                             IF isContainerItem(tmpItem) THEN Append(subs, tmpItem)
                             ELSE subs)

\* the loop over a container's item list (auto-stacking a stackable item),
\* from position k on: n counts the items not passed over
RECURSIVE ItemScan(_, _, _, _, _)
ItemScan(list, k, n, item, subs) ==
    IF k > Len(list) THEN [found |-> FALSE, n |-> n, subs |-> subs]
    ELSE LET tmpItem == list[k] IN
         IF tmpItem = tradeItem \/ tmpItem = item
         THEN ItemScan(list, k + 1, n, item, subs)
         ELSE IF equals(tmpItem, item) /\ itemCount[tmpItem] < StackLimit
         THEN [found |-> TRUE, n |-> n, destItem |-> tmpItem]
         ELSE ItemScan(list, k + 1, n + 1, item,
                       IF isContainerItem(tmpItem) THEN Append(subs, tmpItem)
                       ELSE subs)

\* the loop over the collected containers, from position i on; accepts is
\* the set of containers whose own queryAdd answers ok for the item
RECURSIVE ContainerScan(_, _, _, _, _, _)
ContainerScan(i, containers, index, item, flags, accepts) ==
    IF i > Len(containers)
    THEN [cylinder |-> "player", to |-> index, destItem |-> NoItem]
    ELSE
      LET tmpContainer == containers[i]
          list == contents[tmpContainer]
      IN  IF ~autoStackOf(flags) \/ ~isStackable(item)
          THEN IF Len(list) < capacityOf(tmpContainer) /\ tmpContainer \in accepts
               THEN [cylinder |-> tmpContainer, to |-> Len(list), destItem |-> NoItem]
               ELSE ContainerScan(i + 1, containers \o SubContainers(list),
                                  index, item, flags, accepts)
          ELSE LET scan == ItemScan(list, 1, 0, item, <<>>) IN
               IF scan.found
               THEN [cylinder |-> tmpContainer, to |-> scan.n,
                     destItem |-> scan.destItem]
               ELSE IF scan.n < capacityOf(tmpContainer) /\ tmpContainer \in accepts
               THEN [cylinder |-> tmpContainer, to |-> scan.n, destItem |-> NoItem]
               ELSE ContainerScan(i + 1, containers \o scan.subs,
                                  index, item, flags, accepts)

\* the returned cylinder, the index and *destItem after the call
queryDestination(index, thing, flags, accepts, hookOk) ==
    IF index \in {"WHEREEVER", "MINUS1"}
    THEN IF thing = NotAnItem
         THEN [cylinder |-> "player", to |-> index, destItem |-> NoItem]
         ELSE LET slots == SlotScan(1, thing, flags, hookOk, <<>>) IN
              IF slots.found
              THEN [cylinder |-> slots.cylinder, to |-> slots.to,
                    destItem |-> slots.destItem]
              ELSE ContainerScan(1, slots.containers, index, thing, flags, accepts)
    ELSE LET destThing == getInventoryItem(inventory, index) IN
         IF destThing # NoItem /\ isContainerItem(destThing)
         THEN [cylinder |-> destThing, to |-> "MINUS1", destItem |-> NoItem]
         ELSE [cylinder |-> "player", to |-> index, destItem |-> destThing]

\* what the containers hold when the calls are made
Layouts ==
    { [backpack |-> <<"bag", "arrowsC">>, bag |-> <<"arrowsD">>, quiver |-> <<>>],
      [backpack |-> <<"bag">>, bag |-> <<"arrowsC">>, quiver |-> <<"arrowsD">>],
      [backpack |-> <<"club", "bag">>, bag |-> <<"arrowsC">>, quiver |-> <<>>],
      [backpack |-> <<"arrowsA", "bag">>, bag |-> <<"arrowsC", "arrowsD">>,
       quiver |-> <<>>],
      [backpack |-> <<"bag">>, bag |-> <<>>, quiver |-> <<>>],
      [backpack |-> <<>>, bag |-> <<>>, quiver |-> <<"arrowsC">>],
      [backpack |-> <<"bag", "club">>, bag |-> <<"arrowsA">>, quiver |-> <<"arrowsD">>] }

\* the answers of the containers' own queryAdd
AcceptSets == {Containers, {}, Containers \ {"backpack"}, {"bag"}}

DestIndexes == {"WHEREEVER", "MINUS1", "BACKPACK"}
DestThings == {"arrowsA", "club", NotAnItem}

InitDestination ==
    /\ SessionAtRest
    /\ classicSlots \in BOOLEAN
    /\ playerFlags \in {{}, {"HasInfiniteCapacity"}}
    /\ capacity = MaxCapacity
    /\ \E pack \in {NoItem, "backpack"}, right \in {NoItem, "quiver"},
          ammo \in {NoItem, "arrowsB"} :
         inventory = [s \in Slots |-> CASE s = "BACKPACK" -> pack
                                        [] s = "RIGHT" -> right
                                        [] s = "AMMO" -> ammo
                                        [] OTHER -> NoItem]
    /\ \E b \in {MaxCount, StackLimit}, c \in {MaxCount, StackLimit} :
         itemCount = [InitialCounts EXCEPT !["arrowsB"] = b, !["arrowsC"] = c]
    /\ contents \in Layouts
    /\ inventoryWeight = IF hasFlag("HasInfiniteCapacity") THEN 0
                         ELSE SlotWeights(inventory, itemCount)
    /\ q = NoQuery
    /\ tradeItem \in {NoItem, "bag", "arrowsC"}
    /\ dest = NoDest
    /\ ProgressionAtRest

\* a call of queryDestination
PlayerQueryDestination ==
    /\ dest = NoDest
    /\ \E index \in DestIndexes, thing \in DestThings, flags \in DestFlags,
          accepts \in AcceptSets, hookOk \in BOOLEAN :
         LET r == queryDestination(index, thing, flags, accepts, hookOk) IN
         dest' = [index |-> index, thing |-> thing, flags |-> flags,
                  accepts |-> accepts, hookOk |-> hookOk,
                  cylinder |-> r.cylinder, to |-> r.to, destItem |-> r.destItem]
    /\ UNCHANGED <<invVars, contents, tradeItem, progVars, sessVars>>

\* the caller has used the destination
PlayerDestinationReturn ==
    /\ dest # NoDest
    /\ dest' = NoDest
    /\ UNCHANGED <<invVars, contents, tradeItem, progVars, sessVars>>

NextDestination == PlayerQueryDestination \/ PlayerDestinationReturn

SpecDestination == InitDestination /\ [][NextDestination]_vars

-----------------------------------------------------------------------------
(* queryDestination's properties *)

Range(list) == {list[i] : i \in 1..Len(list)}
Least(S) == CHOOSE x \in S : \A y \in S : x <= y

\* the call in progress looks for a destination (index WHEREEVER or 0) for a
\* stackable item with auto-stacking enabled
AutoStackQuery ==
    /\ dest # NoDest
    /\ dest.index \in {"WHEREEVER", "MINUS1"}
    /\ dest.thing \in Items
    /\ isStackable(dest.thing)
    /\ autoStackOf(dest.flags)

\* a stack the item can be added to: same id, count < 100, neither the item
\* itself nor the trade item
EligibleStack(s) ==
    /\ s \in Items
    /\ s # dest.thing
    /\ s # tradeItem
    /\ equals(s, dest.thing)
    /\ itemCount[s] < StackLimit

\* the containers reachable from the slots CONST_SLOT_FIRST..CONST_SLOT_AMMO
\* (the trade item, and what it holds, left out)
ReachableContainers ==
    LET RECURSIVE Close(_)
        Close(S) == LET T == S \cup {c \in Containers \ {tradeItem} :
                                       \E p \in S : c \in Range(contents[p])}
                    IN  IF T = S THEN S ELSE Close(T)
    IN  Close({inventory[SlotOrder[i]] : i \in 1..AmmoPos}
                \cap (Containers \ {tradeItem}))

\* C7 as stated: when a reachable container holds a stack of the same item
\* with count < 100 (not the item, not the trade item) the destination is
\* such a stack; an empty slot inside a container is returned only when
\* there is no such stack; the player only when there is neither.
C7_StackFirstEverywhere ==
    AutoStackQuery =>
        LET stacks == {s \in Items : /\ EligibleStack(s)
                                     /\ \E c \in ReachableContainers :
                                          s \in Range(contents[c])}
            emptySlot == \E c \in ReachableContainers :
                           /\ Len(contents[c]) < capacityOf(c)
                           /\ c \in dest.accepts
        IN  /\ stacks # {} => dest.destItem \in stacks
            /\ (dest.cylinder \in Containers /\ dest.destItem = NoItem) => stacks = {}
            /\ (dest.cylinder = "player" /\ dest.destItem = NoItem) =>
                   (stacks = {} /\ ~emptySlot)

\* the slot at position i takes the item: it is empty and queryAdd answers
\* ok, or it holds a stack the item can be added to and queryAdd answers ok
SlotOffers(i) ==
    LET slotIndex == SlotOrder[i]
        count == itemCount[dest.thing]
    IN  IF inventory[slotIndex] = NoItem
        THEN queryAdd(slotIndex, dest.thing, count,
                      dest.flags \ {"IGNOREAUTOSTACK"}, dest.hookOk).ret = "NOERROR"
        ELSE /\ EligibleStack(inventory[slotIndex])
             /\ queryAdd(slotIndex, dest.thing, count, {}, dest.hookOk).ret = "NOERROR"

\* the containers in the order of the breadth-first walk: those in the
\* slots, in slot order, then those inside them; the trade item is not
\* walked
WalkOrder ==
    LET walked(list) == SelectSeq(list, LAMBDA c : c # tradeItem /\ c # dest.thing)
        RECURSIVE InSlots(_)
        InSlots(i) == IF i = 0 THEN <<>>
                      ELSE InSlots(i - 1) \o
                           (IF inventory[SlotOrder[i]] \in Containers
                            THEN <<inventory[SlotOrder[i]]>> ELSE <<>>)
        RECURSIVE Walk(_, _)
        Walk(queue, i) ==
            IF i > Len(queue) THEN queue
            ELSE Walk(queue \o walked(SubContainers(contents[queue[i]])), i + 1)
    IN  Walk(walked(InSlots(AmmoPos)), 1)

StacksIn(c) == {k \in 1..Len(contents[c]) : EligibleStack(contents[c][k])}

\* the items of the container that are neither the item nor the trade item
CountedIn(c) ==
    Cardinality({k \in 1..Len(contents[c]) : contents[c][k] \notin {tradeItem, dest.thing}})

FreeIn(c) == CountedIn(c) < capacityOf(c) /\ c \in dest.accepts

\* C7, amended: the slots come first, in slot order: the first one that is
\* empty and accepts the item, or holds a stack of it with count < 100 and
\* accepts it, is the destination (the player, at that slot).  Otherwise the
\* containers are walked breadth-first and the first one that holds such a
\* stack or has a free slot its own queryAdd accepts is the destination: its
\* first such stack if it holds one, else its free slot, whatever deeper
\* containers hold.  The player, with the index unchanged, is returned only
\* when no slot and no walked container takes the item.
C7_FirstInWalkOrder ==
    AutoStackQuery =>
        LET slots == {i \in 1..AmmoPos : SlotOffers(i)}
            walk == WalkOrder
            offering == {j \in 1..Len(walk) :
                           StacksIn(walk[j]) # {} \/ FreeIn(walk[j])}
        IN  IF slots # {}
            THEN /\ dest.cylinder = "player"
                 /\ dest.to = SlotOrder[Least(slots)]
                 /\ dest.destItem = inventory[SlotOrder[Least(slots)]]
            ELSE IF offering # {}
            THEN LET c == walk[Least(offering)] IN
                 /\ dest.cylinder = c
                 /\ IF StacksIn(c) # {}
                    THEN dest.destItem = contents[c][Least(StacksIn(c))]
                    ELSE dest.destItem = NoItem /\ dest.to = CountedIn(c)
            ELSE /\ dest.cylinder = "player"
                 /\ dest.to = dest.index
                 /\ dest.destItem = NoItem

\* the free slot of the backpack is the destination although the bag inside
\* it holds a stack the item could be added to
C7_Witness ==
    /\ AutoStackQuery
    /\ dest.cylinder = "backpack"
    /\ dest.destItem = NoItem
    /\ StacksIn("bag") # {}
    /\ "bag" \in Range(contents["backpack"])
    /\ tradeItem # "bag"

-----------------------------------------------------------------------------
(* Vocations, the cost curves and the experience curve *)

Vocations == {"NONE", "KNIGHT", "ELITE_KNIGHT"}

\* what g_vocations holds of each vocation
VocationInfo ==
    [ NONE         |-> [hpGain |-> 5, manaGain |-> 5, capGain |-> 1, promoted |-> FALSE],
      KNIGHT       |-> [hpGain |-> 15, manaGain |-> 3, capGain |-> 2, promoted |-> FALSE],
      ELITE_KNIGHT |-> [hpGain |-> 15, manaGain |-> 3, capGain |-> 2, promoted |-> TRUE] ]

getHPGain(v) == VocationInfo[v].hpGain
getManaGain(v) == VocationInfo[v].manaGain
getCapGain(v) == VocationInfo[v].capGain

\* Player::isPromoted
isPromoted == VocationInfo[vocation].promoted

Max(a, b) == IF a >= b THEN a ELSE b
Min(a, b) == IF a <= b THEN a ELSE b

\* Player::getExpForLevel
getExpForLevel(lv) == ((((lv - 6) * lv + 17) * lv - 12) \div 6) * 100

\* Vocation::getReqSkillTries of the skill, as a table: the cost doubles with
\* the level and is flat from MaxSkillLevel on
ReqSkillTries ==
    [l \in 0..(MaxSkillLevel + 2) |->
        IF l <= MinSkillLevel THEN 1 ELSE 2 ^ (Min(l, MaxSkillLevel) - MinSkillLevel)]

\* Vocation::getReqMana, as a table: nothing for magic level 0, doubling
\* with the level and flat from MaxMagLevel on
ReqMana ==
    [l \in 0..(MaxMagLevel + 2) |-> IF l = 0 THEN 0 ELSE 2 ^ Min(l, MaxMagLevel)]

\* Player::getPercentLevel, in hundredths of a percent
getPercentLevel(count, nextLevelCount) ==
    IF nextLevelCount = 0 THEN 0
    ELSE LET result == (20000 * count + nextLevelCount) \div (2 * nextLevelCount)
         IN  IF result > 10000 THEN 0 ELSE result

\* the value a whole-percent field takes of getPercentLevel
WholePercent(count, nextLevelCount) == getPercentLevel(count, nextLevelCount) \div 100

-----------------------------------------------------------------------------
(* Player::addSkillAdvance and Player::addManaSpent *)

\* the while loop of addSkillAdvance over st = level, tries, percent, count,
\* currReqTries (curr), nextReqTries (next), sendUpdateSkills (send)
RECURSIVE SkillLoop(_, _)
SkillLoop(st, req) ==
    IF st.tries + st.count >= st.next
    THEN LET st2 == [level |-> st.level + 1, tries |-> 0, percent |-> 0,
                     count |-> st.count - (st.next - st.tries),
                     curr |-> st.next, next |-> req[st.level + 2], send |-> TRUE]
         IN  IF st2.curr >= st2.next THEN [st2 EXCEPT !.count = 0]
             ELSE SkillLoop(st2, req)
    ELSE st

\* addSkillAdvance on the skill s with the count the gain hook left, over the
\* cost curve req: the skill after the call and what was sent
addSkillAdvance(s, count, req) ==
    LET currReqTries == req[s.level]
        nextReqTries == req[s.level + 1]
        same == [level |-> s.level, tries |-> s.tries, percent |-> s.percent,
                 sendSkills |-> 0, sendStats |-> 0]
    IN  IF currReqTries >= nextReqTries THEN same
        ELSE IF count = 0 THEN same
        ELSE LET st == SkillLoop([level |-> s.level, tries |-> s.tries,
                                  percent |-> s.percent, count |-> count,
                                  curr |-> currReqTries, next |-> nextReqTries,
                                  send |-> FALSE], req)
                 tries == st.tries + st.count
                 newPercent == IF st.next > st.curr THEN WholePercent(tries, st.next)
                               ELSE 0
                 sendUpdateSkills == st.send \/ st.percent # newPercent
             IN  [level |-> st.level, tries |-> tries, percent |-> newPercent,
                  sendSkills |-> IF sendUpdateSkills THEN 1 ELSE 0,
                  sendStats |-> IF sendUpdateSkills THEN 1 ELSE 0]

\* the while loop of addManaSpent over st = magLevel, manaSpent, amount,
\* currReqMana (curr), nextReqMana (next), sendUpdateStats (send); returned
\* is set when the function returns from inside the loop
RECURSIVE ManaLoop(_, _)
ManaLoop(st, req) ==
    IF st.manaSpent + st.amount >= st.next
    THEN LET st2 == [magLevel |-> st.magLevel + 1, manaSpent |-> 0,
                     amount |-> st.amount - (st.next - st.manaSpent),
                     curr |-> st.next, next |-> req[st.magLevel + 2],
                     send |-> TRUE, returned |-> FALSE]
         IN  IF st2.curr >= st2.next THEN [st2 EXCEPT !.returned = TRUE]
             ELSE ManaLoop(st2, req)
    ELSE st

\* addManaSpent with the amount the gain hook left: magLevel, manaSpent and
\* magLevelPercent after the call and what was sent
addManaSpent(m, amount, req) ==
    LET currReqMana == req[m.magLevel]
        nextReqMana == req[m.magLevel + 1]
        same == [magLevel |-> m.magLevel, manaSpent |-> m.manaSpent,
                 magLevelPercent |-> m.magLevelPercent,
                 sendSkills |-> 0, sendStats |-> 0]
    IN  IF hasFlag("NotGainMana") THEN same
        ELSE IF currReqMana >= nextReqMana THEN same
        ELSE IF amount = 0 THEN same
        ELSE LET st == ManaLoop([magLevel |-> m.magLevel, manaSpent |-> m.manaSpent,
                                 amount |-> amount, curr |-> currReqMana,
                                 next |-> nextReqMana, send |-> FALSE,
                                 returned |-> FALSE], req)
                 manaSpent == st.manaSpent + st.amount
                 oldPercent == m.magLevelPercent
                 newPercent == IF st.next > st.curr
                               THEN WholePercent(manaSpent, st.next) ELSE 0
                 sendUpdateStats == st.send \/ oldPercent # newPercent
             IN  IF st.returned
                 THEN [magLevel |-> st.magLevel, manaSpent |-> st.manaSpent,
                       magLevelPercent |-> m.magLevelPercent,
                       sendSkills |-> 0, sendStats |-> 0]
                 ELSE [magLevel |-> st.magLevel, manaSpent |-> manaSpent,
                       magLevelPercent |-> newPercent,
                       sendSkills |-> IF sendUpdateStats THEN 1 ELSE 0,
                       sendStats |-> IF sendUpdateStats THEN 1 ELSE 0]

\* the slot inventory and the containers of a player that holds nothing
InventoryAtRest ==
    /\ classicSlots = FALSE
    /\ capacity = MaxCapacity
    /\ inventory = [s \in Slots |-> NoItem]
    /\ itemCount = InitialCounts
    /\ inventoryWeight = 0
    /\ q = NoQuery
    /\ contents = [c \in Containers |-> <<>>]
    /\ tradeItem = NoItem
    /\ dest = NoDest

\* a skill below the flat part of its curve, with the percent of its tries
StartSkills ==
    {[level |-> l, tries |-> tr, percent |-> WholePercent(tr, ReqSkillTries[l + 1])] :
        l \in MinSkillLevel..(MaxSkillLevel - 1), tr \in 0..3} \cap
    {s \in [level : MinSkillLevel..MaxSkillLevel, tries : 0..3, percent : 0..100] :
        s.tries < ReqSkillTries[s.level + 1]}

\* a magic level below the flat part of its curve, with the percent of the
\* mana spent
StartMagic ==
    {[magLevel |-> l, manaSpent |-> sp,
      magLevelPercent |-> WholePercent(sp, ReqMana[l + 1])] :
        l \in 0..(MaxMagLevel - 1), sp \in 0..3} \cap
    {m \in [magLevel : 0..MaxMagLevel, manaSpent : 0..3, magLevelPercent : 0..100] :
        m.manaSpent < ReqMana[m.magLevel + 1]}

InitAdvance ==
    /\ SessionAtRest
    /\ InventoryAtRest
    /\ playerFlags \in {{}, {"NotGainMana"}}
    /\ vocation = "KNIGHT"
    /\ level = 1
    /\ experience = 0
    /\ levelPercent = 0
    /\ healthMax = BaseHealth
    /\ health = BaseHealth
    /\ manaMax = BaseMana
    /\ mana = BaseMana
    /\ skull = "NONE"
    /\ blessings = {}
    /\ skillLoss = TRUE
    /\ skills \in StartSkills
    /\ magic \in StartMagic
    /\ lastOp = NoOp

\* addSkillAdvance(skill, count); the gain hook leaves the count or cancels it
PlayerAddSkillAdvance ==
    \E count \in 1..MaxGain, cancelled \in BOOLEAN :
        LET r == addSkillAdvance(skills, IF cancelled THEN 0 ELSE count, ReqSkillTries) IN
        /\ skills' = [level |-> r.level, tries |-> r.tries, percent |-> r.percent]
        /\ lastOp' = [op |-> "addSkillAdvance", count |-> count, cancelled |-> cancelled,
                      before |-> skills,
                      sendSkills |-> r.sendSkills, sendStats |-> r.sendStats]
        /\ UNCHANGED <<invVars, destVars, sessVars, vocation, level, experience, levelPercent,
                       health, healthMax, mana, manaMax, skull, blessings, skillLoss,
                       magic>>

\* addManaSpent(amount); the gain hook leaves the amount or cancels it
PlayerAddManaSpent ==
    \E amount \in 1..MaxGain, cancelled \in BOOLEAN :
        LET r == addManaSpent(magic, IF cancelled THEN 0 ELSE amount, ReqMana) IN
        /\ magic' = [magLevel |-> r.magLevel, manaSpent |-> r.manaSpent,
                     magLevelPercent |-> r.magLevelPercent]
        /\ lastOp' = [op |-> "addManaSpent", count |-> amount, cancelled |-> cancelled,
                      before |-> magic,
                      sendSkills |-> r.sendSkills, sendStats |-> r.sendStats]
        /\ UNCHANGED <<invVars, destVars, sessVars, vocation, level, experience, levelPercent,
                       health, healthMax, mana, manaMax, skull, blessings, skillLoss,
                       skills>>

NextAdvance == PlayerAddSkillAdvance \/ PlayerAddManaSpent

SpecAdvance == InitAdvance /\ [][NextAdvance]_vars

-----------------------------------------------------------------------------
(* The properties of the advance of skills and magic level *)

\* addSkillAdvance over (manaSpent, magLevel, getReqMana), from the state
\* the last addManaSpent was called in
AsSkillAdvance ==
    addSkillAdvance([level |-> lastOp.before.magLevel,
                     tries |-> lastOp.before.manaSpent,
                     percent |-> lastOp.before.magLevelPercent],
                    lastOp.count, ReqMana)

\* C9: addManaSpent behaves as addSkillAdvance with (manaSpent, magLevel,
\* getReqMana) in place of (tries, level, getReqSkillTries): when the gain
\* hook leaves the amount unchanged (and the player may gain mana), the
\* resulting level, remaining progress and percent are those of
\* addSkillAdvance and the same sendStats and sendSkills are sent, also when
\* the cost curve becomes flat in the middle of the advance loop.
C9_ManaSpentAsSkillAdvance ==
    (lastOp.op = "addManaSpent" /\ ~lastOp.cancelled /\ ~hasFlag("NotGainMana")) =>
        /\ magic.magLevel = AsSkillAdvance.level
        /\ magic.manaSpent = AsSkillAdvance.tries
        /\ magic.magLevelPercent = AsSkillAdvance.percent
        /\ lastOp.sendStats = AsSkillAdvance.sendStats
        /\ lastOp.sendSkills = AsSkillAdvance.sendSkills

-----------------------------------------------------------------------------
(* Player::addExperience and Player::removeExperience *)

\* the vocation whose gains a level at or below 8 is counted with
GainVocation(lv) == IF vocation # "NONE" /\ lv <= 8 THEN "NONE" ELSE vocation

\* the while loop of addExperience over st = level, healthMax, health,
\* manaMax, mana, capacity, currLevelExp (curr), nextLevelExp (next)
RECURSIVE GainLevels(_, _)
GainLevels(st, exp) ==
    IF exp >= st.next
    THEN LET lv == st.level + 1
             v == GainVocation(lv)
             st2 == [level |-> lv,
                     healthMax |-> st.healthMax + getHPGain(v),
                     health |-> st.health + getHPGain(v),
                     manaMax |-> st.manaMax + getManaGain(v),
                     mana |-> st.mana + getManaGain(v),
                     capacity |-> st.capacity + getCapGain(v),
                     curr |-> st.next, next |-> getExpForLevel(lv + 1)]
         IN  IF st2.curr >= st2.next THEN st2 ELSE GainLevels(st2, exp)
    ELSE st

\* the while loop of removeExperience, leaving the loop after one level
LoseOneLevel(st, exp) ==
    IF st.level > 1 /\ exp < st.curr
    THEN LET lv == st.level - 1
             v == GainVocation(lv)
         IN  [level |-> lv,
              healthMax |-> Max(0, st.healthMax - getHPGain(v)),
              manaMax |-> Max(0, st.manaMax - getManaGain(v)),
              capacity |-> Max(0, st.capacity - getCapGain(v)),
              curr |-> getExpForLevel(lv)]
    ELSE st

\* the while loop of removeExperience over st = level, healthMax, manaMax,
\* capacity, currLevelExp (curr)
RECURSIVE LoseLevels(_, _)
LoseLevels(st, exp) ==
    IF st.level > 1 /\ exp < st.curr
    THEN LET lv == st.level - 1
             v == GainVocation(lv)
         IN  LoseLevels([level |-> lv,
                         healthMax |-> Max(0, st.healthMax - getHPGain(v)),
                         manaMax |-> Max(0, st.manaMax - getManaGain(v)),
                         capacity |-> Max(0, st.capacity - getCapGain(v)),
                         curr |-> getExpForLevel(lv)], exp)
    ELSE st

\* the health (or mana) left by a level loop that ends without restoring it
keepVitals(levelChanged, maxValue, value) == value

\* health = healthMax and mana = manaMax, when the level has changed
restoreVitals(levelChanged, maxValue, value) ==
    IF levelChanged THEN maxValue ELSE value

\* levelPercent for the experience between two levels
LevelPercent(exp, currLevelExp, nextLevelExp) ==
    IF nextLevelExp > currLevelExp
    THEN getPercentLevel(exp - currLevelExp, nextLevelExp - currLevelExp)
    ELSE 0

ProgressionStart ==
    /\ SessionAtRest
    /\ InventoryAtRest
    /\ playerFlags = {}
    /\ vocation \in Vocations
    /\ level = 1
    /\ experience = 0
    /\ levelPercent = 0
    /\ healthMax = BaseHealth
    /\ health = BaseHealth
    /\ manaMax = BaseMana
    /\ mana = BaseMana
    /\ skull \in {"NONE", "BLACK"}
    /\ blessings \in {{}, {1, 2}, {2, 5}}
    /\ skillLoss \in BOOLEAN
    /\ skills = [level |-> MinSkillLevel + 1, tries |-> 3,
                 percent |-> WholePercent(3, ReqSkillTries[MinSkillLevel + 2])]
    /\ magic = [magLevel |-> 2, manaSpent |-> 5,
                magLevelPercent |-> WholePercent(5, ReqMana[3])]
    /\ lastOp = NoOp

\* addExperience(source, exp); the gain hook leaves exp or cancels it
PlayerAddExperience ==
    \E exp \in ExpAmounts, cancelled \in BOOLEAN :
        LET currLevelExp == getExpForLevel(level)
            nextLevelExp == getExpForLevel(level + 1)
            gained == experience + exp
            st == GainLevels([level |-> level, healthMax |-> healthMax,
                              health |-> health, manaMax |-> manaMax, mana |-> mana,
                              capacity |-> capacity, curr |-> currLevelExp,
                              next |-> nextLevelExp], gained)
        IN  /\ experience + exp <= MaxExperience
            /\ IF currLevelExp >= nextLevelExp
               THEN /\ levelPercent' = 0
                    /\ lastOp' = [op |-> "addExperience", oldLevel |-> level,
                                  sendStats |-> 1]
                    /\ UNCHANGED <<level, experience, health, healthMax, mana,
                                   manaMax, capacity>>
               ELSE IF cancelled
               THEN /\ lastOp' = [op |-> "addExperience", oldLevel |-> level,
                                  sendStats |-> 0]
                    /\ UNCHANGED <<level, experience, levelPercent, health,
                                   healthMax, mana, manaMax, capacity>>
               ELSE /\ experience' = gained
                    /\ level' = st.level
                    /\ healthMax' = st.healthMax
                    /\ manaMax' = st.manaMax
                    /\ capacity' = st.capacity
                    /\ health' = restoreVitals(st.level # level, st.healthMax, st.health)
                    /\ mana' = restoreVitals(st.level # level, st.manaMax, st.mana)
                    /\ levelPercent' = LevelPercent(gained, st.curr, st.next)
                    /\ lastOp' = [op |-> "addExperience", oldLevel |-> level,
                                  sendStats |-> 1]
            /\ UNCHANGED <<classicSlots, playerFlags, inventory, itemCount,
                           inventoryWeight, q, destVars, sessVars, vocation, skull, blessings,
                           skillLoss, skills, magic>>

\* removeExperience(exp); the loss hook leaves exp or cancels it
PlayerRemoveExperience ==
    \E exp \in ExpAmounts, cancelled \in BOOLEAN :
        LET left == Max(0, experience - exp)
            st == LoseLevels([level |-> level, healthMax |-> healthMax,
                              manaMax |-> manaMax, capacity |-> capacity,
                              curr |-> getExpForLevel(level)], left)
        IN  /\ IF experience = 0 \/ cancelled
               THEN /\ lastOp' = [op |-> "removeExperience", oldLevel |-> level,
                                  sendStats |-> 0]
                    /\ UNCHANGED <<level, experience, levelPercent, health,
                                   healthMax, mana, manaMax, capacity>>
               ELSE /\ experience' = left
                    /\ level' = st.level
                    /\ healthMax' = st.healthMax
                    /\ manaMax' = st.manaMax
                    /\ capacity' = st.capacity
                    /\ health' = restoreVitals(st.level # level, st.healthMax, health)
                    /\ mana' = restoreVitals(st.level # level, st.manaMax, mana)
                    /\ levelPercent' =
                         LevelPercent(left, st.curr, getExpForLevel(st.level + 1))
                    /\ lastOp' = [op |-> "removeExperience", oldLevel |-> level,
                                  sendStats |-> 1]
            /\ UNCHANGED <<classicSlots, playerFlags, inventory, itemCount,
                           inventoryWeight, q, destVars, sessVars, vocation, skull, blessings,
                           skillLoss, skills, magic>>

-----------------------------------------------------------------------------
(* Player::death *)

\* g_config DEATH_LOSE_PERCENT
DeathLosePercent == -1

\* the entries damageMap may hold when the player dies: who dealt the
\* damage (a player of some level, or another creature), how much, and
\* whether it was dealt in the last inFightTicks
DamageEntries ==
    { [dealer |-> "playerA", isPlayer |-> TRUE, dealerLevel |-> 3, total |-> 1,
       inFight |-> TRUE],
      [dealer |-> "playerB", isPlayer |-> TRUE, dealerLevel |-> 8, total |-> 50,
       inFight |-> TRUE],
      [dealer |-> "playerC", isPlayer |-> TRUE, dealerLevel |-> 9, total |-> 50,
       inFight |-> FALSE],
      [dealer |-> "monster", isPlayer |-> FALSE, dealerLevel |-> 0, total |-> 100,
       inFight |-> TRUE] }

\* the damage maps the player dies with
DamageMaps ==
    {m \in SUBSET DamageEntries :
        \/ Cardinality(m) <= 1
        \/ m = {e \in DamageEntries : e.dealer \in {"playerA", "monster"}}
        \/ m = {e \in DamageEntries : e.dealer \in {"playerA", "playerB"}}}

\* the sum of a field over the entries of damageMap dealt in the last
\* inFightTicks, by players or by other creatures
RECURSIVE SumOver(_, _, _)
SumOver(entries, byPlayers, field) ==
    IF entries = {} THEN 0
    ELSE LET e == CHOOSE x \in entries : TRUE
         IN  (IF e.inFight /\ e.isPlayer = byPlayers THEN e[field] ELSE 0)
             + SumOver(entries \ {e}, byPlayers, field)

playerDmgOf(entries) == SumOver(entries, TRUE, "total")
othersDmgOf(entries) == SumOver(entries, FALSE, "total")
sumLevelsOf(entries) == SumOver(entries, TRUE, "dealerLevel")

pvpDeathOf(entries, lastHitIsPlayer) ==
    LET playerDmg == playerDmgOf(entries)
        othersDmg == othersDmgOf(entries)
    IN  /\ (playerDmg > 0 \/ othersDmg > 0)
        /\ (lastHitIsPlayer \/ 100 * playerDmg >= 5 * (playerDmg + othersDmg))

\* unfairFightReduction taken as the floor of level * 100 / sumLevels
unfairFightReductionFloor(entries, lastHitIsPlayer) ==
    LET sumLevels == sumLevelsOf(entries) IN
    IF pvpDeathOf(entries, lastHitIsPlayer) /\ sumLevels > level
    THEN Max(20, (100 * level) \div sumLevels)
    ELSE 100

\* unfairFightReduction: floor(reduce * 100 + 0.5), at least 20
unfairFightReductionOf(entries, lastHitIsPlayer) ==
    LET sumLevels == sumLevelsOf(entries) IN
    IF pvpDeathOf(entries, lastHitIsPlayer) /\ sumLevels > level
    THEN Max(20, (200 * level + sumLevels) \div (2 * sumLevels))
    ELSE 100

\* Player::getLostPercent, in ten-thousandths, for a level below 24 (the
\* levels MaxExperience allows)
getLostPercent ==
    LET blessingCount == Cardinality(blessings \cap 2..8) IN
    IF DeathLosePercent # -1
    THEN 100 * Max(0, DeathLosePercent - (IF isPromoted THEN 3 ELSE 0) - blessingCount)
    ELSE 5 * (100 - ((IF isPromoted THEN 30 ELSE 0) + blessingCount * 8))

\* deathLossPercent, in ten-millionths: the lost percent, reduced by the
\* unfair fight reduction and by the charm of the killing monster's race
deathLossPercentOf(unfairFightReduction, charm) ==
    getLostPercent * unfairFightReduction * (IF charm THEN 9 ELSE 10)

Lost(sum, deathLossPercent) ==
    LET whole == deathLossPercent \div 10000
        part == deathLossPercent % 10000
    IN  (sum * whole + (sum * part) \div 10000) \div 1000

\* the sum of req over the levels from..to
RECURSIVE SumReq(_, _, _)
SumReq(req, from, to) == IF to < from THEN 0 ELSE req[to] + SumReq(req, from, to - 1)

\* the magic level loss
RECURSIVE MagicPeel(_)
MagicPeel(st) ==
    IF st.lostMana > st.manaSpent /\ st.magLevel > 0
    THEN MagicPeel([lostMana |-> st.lostMana - st.manaSpent,
                    manaSpent |-> ReqMana[st.magLevel],
                    magLevel |-> st.magLevel - 1])
    ELSE st

MagicLoss(m, deathLossPercent) ==
    LET sumMana == SumReq(ReqMana, 1, m.magLevel) + m.manaSpent
        st == MagicPeel([lostMana |-> Lost(sumMana, deathLossPercent),
                         manaSpent |-> m.manaSpent, magLevel |-> m.magLevel])
        manaSpent == st.manaSpent - st.lostMana
        nextReqMana == ReqMana[st.magLevel + 1]
    IN  [magLevel |-> st.magLevel, manaSpent |-> manaSpent,
         magLevelPercent |-> IF nextReqMana > ReqMana[st.magLevel]
                             THEN WholePercent(manaSpent, nextReqMana) ELSE 0]

\* the peeling of a skill with the tries of the level above the one left
RECURSIVE SkillPeelAbove(_)
SkillPeelAbove(st) ==
    IF st.lost > st.tries
    THEN IF st.level <= MinSkillLevel
         THEN [lost |-> 0, tries |-> 0, level |-> MinSkillLevel]
         ELSE SkillPeelAbove([lost |-> st.lost - st.tries,
                              tries |-> ReqSkillTries[st.level + 1],
                              level |-> st.level - 1])
    ELSE st

\* the skill loss, for one skill
RECURSIVE SkillPeel(_)
SkillPeel(st) ==
    IF st.lost > st.tries
    THEN IF st.level <= MinSkillLevel
         THEN [lost |-> 0, tries |-> 0, level |-> MinSkillLevel]
         ELSE SkillPeel([lost |-> st.lost - st.tries,
                         tries |-> ReqSkillTries[st.level],
                         level |-> st.level - 1])
    ELSE st

SkillLoss(s, deathLossPercent) ==
    LET sumSkillTries == SumReq(ReqSkillTries, MinSkillLevel + 1, s.level) + s.tries
        st == SkillPeel([lost |-> Lost(sumSkillTries, deathLossPercent),
                         tries |-> s.tries, level |-> s.level])
        tries == Max(0, st.tries - st.lost)
    IN  [level |-> st.level, tries |-> tries,
         percent |-> WholePercent(tries, ReqSkillTries[st.level])]

\* the level loss loop of death over st = level, healthMax, manaMax, capacity
RECURSIVE DeathLevels(_, _)
DeathLevels(st, exp) ==
    IF st.level > 1 /\ exp < getExpForLevel(st.level)
    THEN DeathLevels([level |-> st.level - 1,
                      healthMax |-> Max(0, st.healthMax - getHPGain(vocation)),
                      manaMax |-> Max(0, st.manaMax - getManaGain(vocation)),
                      capacity |-> Max(0, st.capacity - getCapGain(vocation))], exp)
    ELSE st

\* hasBlessing(index) and removeBlessing(index, 1) over the blessings held
hasBlessing(bs, index) == index \in bs
removeBlessing(bs, index) == bs \ {index}

RECURSIVE removeBlessings(_, _, _)
removeBlessings(bs, from, to) ==
    IF to < from THEN bs
    ELSE removeBlessings(removeBlessing(bs, from), from + 1, to)

\* the blessing loss of death with blessing 1 removed in every PvP death
loseBlessingsTwistOnly(bs, pvpDeath) ==
    IF pvpDeath THEN removeBlessing(bs, 1) ELSE removeBlessings(bs, 2, 8)

\* the blessing loss of death: blessing 1 only, or blessings 2..8
loseBlessings(bs, pvpDeath) ==
    IF pvpDeath /\ hasBlessing(bs, 1)
    THEN removeBlessing(bs, 1)
    ELSE removeBlessings(bs, 2, 8)

\* drainHealth(attacker, damage): a hit that leaves the player alive, or
\* one that takes all the health left
PlayerDrainHealth ==
    \E damage \in {DrainAmount, health} :
        /\ health > 0
        /\ health' = Max(0, health - damage)
        /\ lastOp' = [op |-> "drainHealth", oldLevel |-> level, sendStats |-> 1]
        /\ UNCHANGED <<invVars, destVars, sessVars, vocation, level, experience, levelPercent,
                       healthMax, mana, manaMax, skull, blessings, skillLoss, skills,
                       magic>>

\* drainMana(attacker, manaLoss), of all the mana left
PlayerDrainMana ==
    /\ health > 0
    /\ mana > 0
    /\ mana' = 0
    /\ lastOp' = [op |-> "drainMana", oldLevel |-> level, sendStats |-> 1]
    /\ UNCHANGED <<invVars, destVars, sessVars, vocation, level, experience, levelPercent,
                   health, healthMax, manaMax, skull, blessings, skillLoss, skills,
                   magic>>

\* the losses of death(lastHitCreature) once deathLossPercent is known
DeathLoss(entries, lastHitIsPlayer, deathLossPercent, cancelled) ==
    LET pvpDeath == pvpDeathOf(entries, lastHitIsPlayer)
        unfairFightReduction == unfairFightReductionOf(entries, lastHitIsPlayer)
        expLoss == IF cancelled THEN 0 ELSE Lost(experience, deathLossPercent)
        left == IF expLoss # 0 /\ (vocation = "NONE" \/ level > 7)
                THEN experience - expLoss ELSE experience
        st == IF expLoss # 0
              THEN DeathLevels([level |-> level, healthMax |-> healthMax,
                                manaMax |-> manaMax, capacity |-> capacity], left)
              ELSE [level |-> level, healthMax |-> healthMax, manaMax |-> manaMax,
                    capacity |-> capacity]
    IN  /\ magic' = MagicLoss(magic, deathLossPercent)
        /\ skills' = SkillLoss(skills, deathLossPercent)
        /\ experience' = left
        /\ level' = st.level
        /\ healthMax' = st.healthMax
        /\ manaMax' = st.manaMax
        /\ capacity' = st.capacity
        /\ levelPercent' = IF expLoss # 0
                           THEN LevelPercent(left, getExpForLevel(st.level),
                                             getExpForLevel(st.level + 1))
                           ELSE levelPercent
        /\ blessings' = loseBlessings(blessings, pvpDeath)
        /\ health' = IF skull = "BLACK" THEN 40 ELSE st.healthMax
        /\ mana' = IF skull = "BLACK" THEN 0 ELSE st.manaMax
        /\ lastOp' = [op |-> "death", oldLevel |-> level, withSkillLoss |-> TRUE,
                      pvpDeath |-> pvpDeath, sumLevels |-> sumLevelsOf(entries),
                      oldBlessings |-> blessings, oldSkills |-> skills,
                      deathLossPercent |-> deathLossPercent,
                      unfairFightReduction |-> unfairFightReduction,
                      sendStats |-> 1, sendSkills |-> 1]
        /\ UNCHANGED skillLoss

\* death(lastHitCreature) of a player with skill loss
DeathWithSkillLoss(entries, lastHitIsPlayer, charm, cancelled) ==
    DeathLoss(entries, lastHitIsPlayer,
              deathLossPercentOf(unfairFightReductionOf(entries, lastHitIsPlayer),
                                 charm),
              cancelled)

\* death(lastHitCreature) of a player without skill loss
DeathWithoutSkillLoss ==
    /\ skillLoss' = TRUE
    /\ health' = healthMax
    /\ lastOp' = [op |-> "death", oldLevel |-> level, withSkillLoss |-> FALSE,
                  sendStats |-> 1, sendSkills |-> 0]
    /\ UNCHANGED <<magic, skills, experience, level, healthMax, manaMax, capacity,
                   levelPercent, blessings, mana>>

\* death(lastHitCreature), once the health is gone
PlayerDeath ==
    \E entries \in DamageMaps, lastHitIsPlayer \in BOOLEAN,
       charm \in BOOLEAN, cancelled \in BOOLEAN :
        /\ health = 0
        /\ IF skillLoss
           THEN DeathWithSkillLoss(entries, lastHitIsPlayer, charm, cancelled)
           ELSE DeathWithoutSkillLoss
        /\ UNCHANGED <<classicSlots, playerFlags, inventory, itemCount,
                       inventoryWeight, q, destVars, sessVars, vocation, skull>>

NextProgression ==
    \/ PlayerAddExperience
    \/ PlayerRemoveExperience
    \/ PlayerDrainHealth
    \/ PlayerDrainMana
    \/ PlayerDeath

SpecProgression == ProgressionStart /\ [][NextProgression]_vars

-----------------------------------------------------------------------------
(* Player::death over the skills and the death loss percents the
   configuration, the level and the blessings can give *)

\* deathLossPercent, in ten-millionths, from nothing to everything
LossPercents ==
    {0, 500000, 1000000, 2500000, 3000000, 5000000, 6000000, 7500000, 9000000,
     10000000}

\* the skills a player dies with: from the level below the floor (a skill
\* loaded from storage) to the flat part of the curve, with fewer tries than
\* the next level takes
LossSkills ==
    {s \in [level : (MinSkillLevel - 1)..MaxSkillLevel,
            tries : 0..(ReqSkillTries[MaxSkillLevel] - 1), percent : 0..100] :
        /\ s.tries < ReqSkillTries[s.level + 1]
        /\ s.percent = WholePercent(s.tries, ReqSkillTries[s.level + 1])}

InitSkillLoss ==
    /\ SessionAtRest
    /\ InventoryAtRest
    /\ playerFlags = {}
    /\ vocation = "NONE"
    /\ level = 1
    /\ experience = 0
    /\ levelPercent = 0
    /\ healthMax = BaseHealth
    /\ health = BaseHealth
    /\ manaMax = BaseMana
    /\ mana = BaseMana
    /\ skull = "NONE"
    /\ blessings = {}
    /\ skillLoss = TRUE
    /\ skills \in LossSkills
    /\ magic = [magLevel |-> 2, manaSpent |-> 3,
                magLevelPercent |-> WholePercent(3, ReqMana[3])]
    /\ lastOp = NoOp

\* death(lastHitCreature) of a player with skill loss, at a given
\* deathLossPercent
PlayerDeathAtPercent ==
    \E entries \in {{}}, deathLossPercent \in LossPercents :
        /\ health = 0
        /\ skillLoss
        /\ DeathLoss(entries, FALSE, deathLossPercent, FALSE)
        /\ UNCHANGED <<classicSlots, playerFlags, inventory, itemCount,
                       inventoryWeight, q, destVars, sessVars, vocation, skull>>

NextSkillLoss ==
    \/ PlayerDrainHealth
    \/ PlayerDeathAtPercent

SpecSkillLoss == InitSkillLoss /\ [][NextSkillLoss]_vars

-----------------------------------------------------------------------------
(* The properties of experience and death *)

\* the last operation changed the level through experience
LevelChanged ==
    /\ lastOp.op \in {"addExperience", "removeExperience", "death"}
    /\ lastOp.oldLevel # level

\* C8 as stated: immediately after an operation that changes the level
\* through experience (level-up in addExperience, level-down in
\* removeExperience, level loss in death), health = healthMax and
\* mana = manaMax.
C8_VitalsFullAfterLevelChange ==
    LevelChanged => (health = healthMax /\ mana = manaMax)

\* C8, amended: health = healthMax and mana = manaMax immediately after a
\* level-up in addExperience, a level-down in removeExperience and a level
\* loss in the death of a player whose skull is not black; the death of a
\* black-skulled player leaves health = 40 and mana = 0, whatever healthMax
\* and manaMax have become.
C8_VitalsAfterLevelChange ==
    LevelChanged =>
        IF lastOp.op = "death" /\ skull = "BLACK"
        THEN health = 40 /\ mana = 0
        ELSE health = healthMax /\ mana = manaMax

\* a black-skulled player lost a level in death
C8_Witness ==
    /\ LevelChanged
    /\ lastOp.op = "death"
    /\ skull = "BLACK"
    /\ health # healthMax

\* the last operation was a death with skill loss
DiedWithSkillLoss == lastOp.op = "death" /\ lastOp.withSkillLoss

\* the death was a PvP death and the damaging players' levels sum up to more
\* than the victim's level
UnfairFight == lastOp.pvpDeath /\ lastOp.sumLevels > lastOp.oldLevel

\* C10 as stated: in a PvP death where the summed level of the damaging
\* players exceeds the victim's level, unfairFightReduction is
\* max(20, floor(level * 100 / sumLevels)), within 20..100; in every other
\* case it is 100.
C10_ReductionIsFloor ==
    DiedWithSkillLoss =>
        IF UnfairFight
        THEN /\ lastOp.unfairFightReduction
                  = Max(20, (lastOp.oldLevel * 100) \div lastOp.sumLevels)
             /\ lastOp.unfairFightReduction \in 20..100
        ELSE lastOp.unfairFightReduction = 100

\* C10, amended: in such a death unfairFightReduction is level * 100 /
\* sumLevels rounded to the nearest whole number (a half rounds up), and 20
\* when that is below 20; it lies within 20..100; in every other case it is
\* 100.
C10_ReductionIsRounded ==
    DiedWithSkillLoss =>
        IF UnfairFight
        THEN LET r == lastOp.unfairFightReduction
                 x == 200 * lastOp.oldLevel
                 s == lastOp.sumLevels
             IN  /\ r \in 20..100
                 /\ \/ r = 20 /\ x < 41 * s
                    \/ (2 * r - 1) * s <= x /\ x < (2 * r + 1) * s
        ELSE lastOp.unfairFightReduction = 100

\* a level 2 player killed by players whose levels sum up to 3: 66.67 is
\* rounded to 67
C10_Witness ==
    /\ DiedWithSkillLoss
    /\ UnfairFight
    /\ lastOp.oldLevel = 2
    /\ lastOp.sumLevels = 3
    /\ lastOp.unfairFightReduction = 67

\* C11 as stated: in death() with skill loss, on every PvP death the player
\* keeps all standard blessings (2..8) and loses only blessing 1 (Twist of
\* Fate); on every non-PvP death all standard blessings 2..8 are removed.
C11_PvpKeepsBlessings ==
    DiedWithSkillLoss =>
        IF lastOp.pvpDeath
        THEN blessings = lastOp.oldBlessings \ {1}
        ELSE blessings \cap (2..8) = {}

\* C11, amended: in death() with skill loss, on a PvP death of a player who
\* holds blessing 1 (Twist of Fate) the player keeps all standard blessings
\* (2..8) and loses only blessing 1; on a PvP death of a player without
\* blessing 1 and on every non-PvP death all standard blessings 2..8 are
\* removed and blessing 1 is left as it was.
C11_BlessingLoss ==
    DiedWithSkillLoss =>
        IF lastOp.pvpDeath /\ 1 \in lastOp.oldBlessings
        THEN blessings = lastOp.oldBlessings \ {1}
        ELSE blessings = lastOp.oldBlessings \ (2..8)

\* a PvP death of a player holding standard blessings without blessing 1
C11_Witness ==
    /\ DiedWithSkillLoss
    /\ lastOp.pvpDeath
    /\ 1 \notin lastOp.oldBlessings
    /\ lastOp.oldBlessings \cap (2..8) # {}
    /\ blessings = {}

\* the skill the player died with, and the skill left
DiedAtPercent == DiedWithSkillLoss /\ lastOp.deathLossPercent \in 0..10000000

\* C12: for every skill and every death loss percent in [0, 1], death()
\* never leaves a skill level below 10 when it was at least 10 before, never
\* increases a skill level, leaves a skill that was at level 10 or below at
\* its level, and leaves tries within [0, the tries the level after the
\* resulting one takes), never above the tries the skill had or the tries of
\* the level it came down from (no unsigned wrap-around).
C12_SkillLossBounded ==
    DiedAtPercent =>
        LET old == lastOp.oldSkills IN
        /\ old.level >= MinSkillLevel => skills.level >= MinSkillLevel
        /\ skills.level <= old.level
        /\ old.level <= MinSkillLevel => skills.level = old.level
        /\ skills.tries >= 0
        /\ skills.tries < ReqSkillTries[skills.level + 1]
        /\ skills.level = old.level => skills.tries <= old.tries

\* a death that took a skill down to the floor from two levels above it
C12_Witness ==
    /\ DiedAtPercent
    /\ lastOp.oldSkills.level = MinSkillLevel + 2
    /\ skills.level = MinSkillLevel
    /\ skills.tries < lastOp.oldSkills.tries

-----------------------------------------------------------------------------
(* The scheduler tasks of the player: setNextWalkActionTask, setNextWalkTask,
   setNextActionTask, setNextActionPushTask, setNextPotionActionTask,
   cancelPush, onWalkComplete and doAttacking *)

\* SCHEDULER_MINTICKS and Player::getAttackSpeed, in ticks of the clock
SchedulerMinTicks == 1
AttackSpeed == 2

\* the task-id field each kind of task is kept in
TaskLanes == {"walk", "nextStep", "action", "push", "potion"}

\* the task fields and the scheduler, as one value the calls below transform
Lanes ==
    [walkTask |-> walkTask, walkTaskEvent |-> walkTaskEvent,
     nextStepEvent |-> nextStepEvent, actionTaskEvent |-> actionTaskEvent,
     actionTaskEventPush |-> actionTaskEventPush,
     actionPotionTaskEvent |-> actionPotionTaskEvent,
     inEventMovePush |-> inEventMovePush, idleTime |-> idleTime,
     pending |-> pending, lastEventId |-> lastEventId, seq |-> <<>>]

\* the lane of each task-id field
LaneOf ==
    [walkTaskEvent |-> "walk", nextStepEvent |-> "nextStep",
     actionTaskEvent |-> "action", actionTaskEventPush |-> "push",
     actionPotionTaskEvent |-> "potion"]

\* g_scheduler.stopEvent(id): the event is pending no more
stopEvent(L, id, lane) ==
    [L EXCEPT !.pending = {e \in @ : e.id # id},
              !.seq = Append(@, [call |-> "stopEvent", id |-> id, lane |-> lane,
                                 wasPending |-> \E e \in L.pending : e.id = id])]

\* field = g_scheduler.addEvent(task), or the same call with the id dropped
\* (field "none"): the scheduler returns the next id
addEvent(L, field, lane, by) ==
    LET id == L.lastEventId + 1
        added == [L EXCEPT !.pending = @ \cup {[id |-> id, lane |-> lane, by |-> by]},
                           !.lastEventId = id,
                           !.seq = Append(@, [call |-> "addEvent", id |-> id,
                                              lane |-> lane, wasPending |-> FALSE])]
    IN  IF field = "none" THEN added ELSE [added EXCEPT ![field] = id]

\* the field is cleared and its event left with the scheduler
forgetField(L, field) == [L EXCEPT ![field] = 0]

\* if (field != 0) { g_scheduler.stopEvent(field); field = 0; }
stopField(L, field) ==
    IF L[field] # 0
    THEN [stopEvent(L, L[field], LaneOf[field]) EXCEPT ![field] = 0]
    ELSE L

resetIdleTime(L) == [L EXCEPT !.idleTime = 0]

cancelPush(L) ==
    IF L.actionTaskEventPush # 0
    THEN [stopField(L, "actionTaskEventPush") EXCEPT !.inEventMovePush = FALSE]
    ELSE L

setNextWalkActionTask(L, task) ==
    [stopField(L, "walkTaskEvent") EXCEPT !.walkTask = task]

setNextWalkTask(L, task) ==
    LET stopped == stopField(L, "nextStepEvent") IN
    IF task
    THEN resetIdleTime(addEvent(stopped, "nextStepEvent", "nextStep", "setNextWalkTask"))
    ELSE stopped

setNextActionTask(L, task, reset) ==
    LET stopped == stopField(L, "actionTaskEvent")
        pushed == IF ~stopped.inEventMovePush THEN cancelPush(stopped) ELSE stopped
        added == addEvent(pushed, "actionTaskEvent", "action", "setNextActionTask")
    IN  IF task THEN (IF reset THEN resetIdleTime(added) ELSE added) ELSE pushed

setNextActionPushTask(L, task) ==
    LET stopped == stopField(L, "actionTaskEventPush") IN
    IF task
    THEN addEvent(stopped, "actionTaskEventPush", "push", "setNextActionPushTask")
    ELSE stopped

setNextPotionActionTask(L, task) ==
    LET pushed == cancelPush(stopField(L, "actionPotionTaskEvent")) IN
    IF task
    THEN addEvent(pushed, "actionPotionTaskEvent", "potion", "setNextPotionActionTask")
    ELSE pushed

onWalkComplete(L) ==
    IF L.walkTask
    THEN [addEvent(L, "walkTaskEvent", "walk", "onWalkComplete") EXCEPT !.walkTask = FALSE]
    ELSE L

\* the fields and the scheduler take the values of L
SetLanes(L) ==
    /\ walkTask' = L.walkTask
    /\ walkTaskEvent' = L.walkTaskEvent
    /\ nextStepEvent' = L.nextStepEvent
    /\ actionTaskEvent' = L.actionTaskEvent
    /\ actionTaskEventPush' = L.actionTaskEventPush
    /\ actionPotionTaskEvent' = L.actionPotionTaskEvent
    /\ inEventMovePush' = L.inEventMovePush
    /\ idleTime' = L.idleTime
    /\ pending' = L.pending
    /\ lastEventId' = L.lastEventId
    /\ calls' = L.seq

\* the variables no scheduler operation changes
besideLanes == <<invVars, destVars, progVars, hitVars, acctVars, msgVars, killVars,
                 connVars, think>>

\* a task to schedule (TRUE) or nullptr (FALSE), while ids are left
Tasks == IF lastEventId < MaxEvents THEN BOOLEAN ELSE {FALSE}

PlayerSetNextWalkActionTask ==
    \E task \in Tasks :
        /\ SetLanes(setNextWalkActionTask(Lanes, task))
        /\ UNCHANGED <<besideLanes, attackVars>>

PlayerSetNextWalkTask ==
    \E task \in Tasks :
        /\ SetLanes(setNextWalkTask(Lanes, task))
        /\ UNCHANGED <<besideLanes, attackVars>>

PlayerSetNextActionTask ==
    \E task \in Tasks, reset \in BOOLEAN :
        /\ SetLanes(setNextActionTask(Lanes, task, reset))
        /\ UNCHANGED <<besideLanes, attackVars>>

PlayerSetNextActionPushTask ==
    \E task \in Tasks :
        /\ SetLanes(setNextActionPushTask(Lanes, task))
        /\ UNCHANGED <<besideLanes, attackVars>>

PlayerSetNextPotionActionTask ==
    \E task \in Tasks :
        /\ SetLanes(setNextPotionActionTask(Lanes, task))
        /\ UNCHANGED <<besideLanes, attackVars>>

PlayerCancelPush ==
    /\ SetLanes(cancelPush(Lanes))
    /\ UNCHANGED <<besideLanes, attackVars>>

PlayerOnWalkComplete ==
    /\ walkTask => lastEventId < MaxEvents
    /\ SetLanes(onWalkComplete(Lanes))
    /\ UNCHANGED <<besideLanes, attackVars>>

\* Player::canDoAction and Player::getNextActionTime
canDoAction == nextAction <= now
getNextActionTime == Max(SchedulerMinTicks, nextAction - now)

\* the weapon in hand: none (the fist), one that does not interrupt the
\* swing, one that does
Weapons == {"fist", "weapon", "interruptSwing"}

\* doAttacking without a task for the next check
scheduleNothing(L) == L

\* the task doAttacking creates is given to the scheduler: through
\* setNextActionTask, or directly with CLASSIC_ATTACK_SPEED
scheduleAttack(L) ==
    IF ~classicSpeed
    THEN setNextActionTask(L, TRUE, FALSE)
    ELSE addEvent(L, "none", "action", "doAttacking")

\* doAttacking(interval); pacified tells whether the player has
\* CONDITION_PACIFIED, used whether useWeapon or useFist succeeds
PlayerDoAttacking ==
    \E pacified \in BOOLEAN, weapon \in Weapons, used \in BOOLEAN :
        LET started == IF lastAttack = 0 THEN now - AttackSpeed - 1 ELSE lastAttack
            due == (now - started) >= AttackSpeed
            swing == weapon # "interruptSwing" \/ classicSpeed \/ canDoAction
            result == ~pacified /\ due /\ swing /\ used
            delay == IF swing THEN AttackSpeed ELSE getNextActionTime
            L == IF ~pacified /\ due THEN scheduleAttack(Lanes) ELSE Lanes
        IN  /\ lastEventId < MaxEvents
            /\ SetLanes(L)
            /\ lastAttack' = IF result THEN now ELSE started
            /\ attack' = [op |-> "doAttacking", pacified |-> pacified, due |-> due,
                          result |-> result, at |-> now, before |-> lastAttack,
                          scheduled |-> \E i \in DOMAIN L.seq :
                                           L.seq[i].call = "addEvent",
                          delay |-> IF ~pacified /\ due
                                    THEN Max(SchedulerMinTicks, delay) ELSE 0]
            /\ UNCHANGED <<besideLanes, classicSpeed, now, nextAction>>

\* the scheduler runs an event that is pending
SchedulerRunsEvent ==
    \E e \in pending :
        /\ pending' = pending \ {e}
        /\ calls' = <<>>
        /\ UNCHANGED <<besideLanes, attackVars, walkTask, walkTaskEvent,
                       nextStepEvent, actionTaskEvent, actionTaskEventPush,
                       actionPotionTaskEvent, inEventMovePush, lastEventId,
                       idleTime>>

\* time passes
ClockTick ==
    /\ now < StartTime + MaxTicks
    /\ now' = now + 1
    /\ UNCHANGED <<besideLanes, laneVars, idleTime, classicSpeed, lastAttack,
                   nextAction, attack>>

\* no task held or scheduled
LanesAtRest ==
    /\ walkTask = FALSE
    /\ walkTaskEvent = 0
    /\ nextStepEvent = 0
    /\ actionTaskEvent = 0
    /\ actionTaskEventPush = 0
    /\ actionPotionTaskEvent = 0
    /\ pending = {}
    /\ lastEventId = 0
    /\ calls = <<>>

InitScheduler ==
    /\ AccountAtRest
    /\ InventoryAtRest
    /\ playerFlags = {}
    /\ ProgressionAtRest
    /\ LanesAtRest
    /\ inEventMovePush \in BOOLEAN
    /\ classicSpeed \in BOOLEAN
    /\ now = StartTime
    /\ lastAttack = 0
    /\ nextAction = StartTime + 1
    /\ attack = NoAttack
    /\ ThinkAtRest
    /\ HitAtRest

NextScheduler ==
    \/ PlayerSetNextWalkActionTask
    \/ PlayerSetNextWalkTask
    \/ PlayerSetNextActionTask
    \/ PlayerSetNextActionPushTask
    \/ PlayerSetNextPotionActionTask
    \/ PlayerCancelPush
    \/ PlayerOnWalkComplete
    \/ PlayerDoAttacking
    \/ SchedulerRunsEvent

SpecScheduler == InitScheduler /\ [][NextScheduler]_vars

\* the attacks of a player as time passes
InitAttack ==
    /\ AccountAtRest
    /\ InventoryAtRest
    /\ playerFlags = {}
    /\ ProgressionAtRest
    /\ LanesAtRest
    /\ inEventMovePush = FALSE
    /\ classicSpeed \in BOOLEAN
    /\ now = StartTime
    /\ lastAttack = 0
    /\ nextAction \in {0, StartTime + 2}
    /\ attack = NoAttack
    /\ ThinkAtRest
    /\ HitAtRest

NextAttack ==
    \/ PlayerDoAttacking
    \/ SchedulerRunsEvent
    \/ ClockTick

SpecAttack == InitAttack /\ [][NextAttack]_vars

-----------------------------------------------------------------------------
(* Player::blockHit *)

\* the largest damage of a hit
MaxDamage == 100

\* std::round and std::ceil of p / q, for q > 0
roundDiv(n, d) ==
    IF n >= 0 THEN (2 * n + d) \div (2 * d) ELSE -((2 * (-n) + d) \div (2 * d))
ceilDiv(n, d) == -((-n) \div d)

\* the kinds of item worn: the abilities of the item type (absorbPercent and
\* fieldAbsorbPercent for the combat type of the hit, 0 without abilities),
\* the absorbPercent of the imbuements in its slots, and its charges
WornKinds ==
    { [absorb |-> 0, fieldAbsorb |-> 0, imbuements |-> <<>>, charges |-> 0],
      [absorb |-> 50, fieldAbsorb |-> 0, imbuements |-> <<>>, charges |-> 2],
      [absorb |-> 150, fieldAbsorb |-> 0, imbuements |-> <<15>>, charges |-> 0],
      [absorb |-> -20, fieldAbsorb |-> 100, imbuements |-> <<0, 15>>, charges |-> 1] }

\* the damage after the absorbPercent of the imbuements from slot i on
RECURSIVE absorbImbuements(_, _, _)
absorbImbuements(damage, imbuements, i) ==
    IF i > Len(imbuements) THEN damage
    ELSE absorbImbuements(IF imbuements[i] # 0
                          THEN damage - ceilDiv(damage * imbuements[i], 100)
                          ELSE damage,
                          imbuements, i + 1)

\* the body of the loop over the slots, for one item: the damage and the
\* charges it leaves
absorbItem(damage, item, field) ==
    LET d1 == IF item.absorb # 0
              THEN damage - roundDiv(damage * item.absorb, 100) ELSE damage
        c1 == IF item.absorb # 0 /\ item.charges # 0
              THEN item.charges - 1 ELSE item.charges
        d2 == IF field /\ item.fieldAbsorb # 0
              THEN d1 - roundDiv(d1 * item.fieldAbsorb, 100) ELSE d1
        c2 == IF field /\ item.fieldAbsorb # 0 /\ c1 # 0 THEN c1 - 1 ELSE c1
    IN  [damage |-> absorbImbuements(d2, item.imbuements, 1), charges |-> c2]

\* the loop over the slots from item i on
RECURSIVE absorbItems(_, _, _, _)
absorbItems(damage, items, field, i) ==
    IF i > Len(items) THEN [damage |-> damage, items |-> items]
    ELSE LET r == absorbItem(damage, items[i], field)
         IN  absorbItems(r.damage, [items EXCEPT ![i].charges = r.charges],
                         field, i + 1)

\* the end of blockHit without the test of damage <= 0
unclamped(damage, blockType) == [damage |-> damage, blockType |-> blockType]

\* if (damage <= 0) { damage = 0; blockType = BLOCK_ARMOR; }
clamped(damage, blockType) ==
    IF damage <= 0
    THEN [damage |-> 0, blockType |-> "ARMOR"]
    ELSE [damage |-> damage, blockType |-> blockType]

\* Player::blockHit once Creature::blockHit has returned blockType and left
\* damage: protection and damageBoost are the potion conditions of the
\* player and of the attacking player, wheel and avatar the Wheel-of-Destiny
\* resistance (of 10000) and avatar damage reduction (of 100)
blockHit(blockType, damage, items, field, protection, damageBoost, wheel, avatar) ==
    IF blockType # "NONE" \/ damage <= 0
    THEN [damage |-> damage, blockType |-> blockType, items |-> items]
    ELSE LET worn1 == absorbItems(damage, items, field, 1)
             d1 == worn1.damage
             d2 == IF d1 > 0 /\ protection THEN d1 - ceilDiv(d1 * 8, 100) ELSE d1
             d3 == IF d1 > 0 /\ damageBoost THEN d2 + ceilDiv(d2 * 8, 100) ELSE d2
             d4 == IF wheel > 0 THEN d3 - ceilDiv(d3 * wheel, 10000) ELSE d3
             d5 == d4 - ceilDiv(d4 * avatar, 100)
             r == clamped(d5, blockType)
         IN  [damage |-> r.damage, blockType |-> r.blockType, items |-> worn1.items]

\* what Creature::blockHit returns and the damage it leaves
CreatureBlocks ==
    {[blockType |-> "NONE", damage |-> d] : d \in {0, 1, 3, 13, MaxDamage}} \cup
    {[blockType |-> "DEFENSE", damage |-> 0], [blockType |-> "ARMOR", damage |-> 0],
     [blockType |-> "IMMUNITY", damage |-> 0]}

\* the items worn: none, one, or two of them
WornSets ==
    {<<>>} \cup {<<a>> : a \in WornKinds} \cup
    {<<a, b>> : a \in {k \in WornKinds : k.absorb # 0}, b \in WornKinds}

InitBlockHit ==
    /\ AccountAtRest
    /\ InventoryAtRest
    /\ playerFlags = {}
    /\ ProgressionAtRest
    /\ SchedulerAtRest
    /\ ThinkAtRest
    /\ worn \in WornSets
    /\ hit = NoHit

\* blockHit(attacker, combatType, damage, checkDefense, checkArmor, field)
PlayerBlockHit ==
    \E creature \in CreatureBlocks, field \in BOOLEAN, protection \in BOOLEAN,
       damageBoost \in BOOLEAN, wheel \in {0, 2500}, avatar \in {0, 15} :
        LET r == blockHit(creature.blockType, creature.damage, worn, field,
                          protection, damageBoost, wheel, avatar)
        IN  /\ worn' = r.items
            /\ hit' = [op |-> "blockHit", creature |-> creature,
                       damage |-> r.damage, blockType |-> r.blockType]
            /\ UNCHANGED <<invVars, destVars, progVars, schedVars, thinkVars,
                           acctVars>>

NextBlockHit == PlayerBlockHit

SpecBlockHit == InitBlockHit /\ [][NextBlockHit]_vars

-----------------------------------------------------------------------------
(* Player::onThink and the operations around it: removeMessageBuffer,
   addUnjustifiedDead, onEndCondition, sendPing *)

\* g_config MAX_MESSAGEBUFFER and KICK_AFTER_MINUTES
MaxMessageBuffer == 4
KickAfterMinutes == 1
\* g_config DAY_KILLS_TO_RED, WEEK_KILLS_TO_RED, MONTH_KILLS_TO_RED
DayKillsToRed == 3
WeekKillsToRed == 4
MonthKillsToRed == 5
\* g_config RED_SKULL_DURATION and BLACK_SKULL_DURATION, in days
RedSkullDuration == 1
BlackSkullDuration == 2
\* the interval creatures think at, in milliseconds
ThinkInterval == 1000
\* the value of muteCountMap[guid] no further mute is followed from
MaxMuteCount == 4
\* the number of unjustified kills followed
MaxKills == 6
\* the skull time left, in ticks, below which onThink is followed
MaxSkullTicks == 3
\* the pong silence, in think intervals, up to which the clock is followed
MaxSilence == 61

\* the progression variables but the skull
besideSkull == <<vocation, level, experience, levelPercent, health, healthMax, mana,
                 manaMax, blessings, skillLoss, skills, magic, lastOp>>

\* Player::canLogout
canLogout ==
    IF isConnecting THEN FALSE
    ELSE IF "NOLOGOUT" \in tileFlags THEN FALSE
    ELSE IF "PROTECTIONZONE" \in tileFlags THEN TRUE
    ELSE ~pzLocked /\ ~inFight

\* the target sendPing drops whatever it is
dropsAnyTarget(hasLostConnection, noPongTime) ==
    (hasLostConnection \/ noPongTime >= 7000) /\ attackedCreature # "none"

\* the test of sendPing for setAttackedCreature(nullptr)
dropsTarget(hasLostConnection, noPongTime) ==
    (hasLostConnection \/ noPongTime >= 7000) /\ attackedCreature = "player"

\* Player::sendPing; allowed is what g_creatureEvents->playerLogout returns
sendPing(allowed) ==
    LET pingDue == (now - lastPing) >= 5000
        hasLostConnection == pingDue /\ ~client
        noPongTime == now - lastPong
    IN  [lastPing |-> IF pingDue THEN now ELSE lastPing,
         pinged |-> pingDue /\ client,
         hasLostConnection |-> hasLostConnection,
         noPongTime |-> noPongTime,
         dropped |-> dropsTarget(hasLostConnection, noPongTime),
         canLogout |-> canLogout,
         logout |-> noPongTime >= 60000 /\ canLogout /\ allowed]

\* Player::addMessageBuffer over MessageBufferCount
addMessageBuffer(count) ==
    IF count > 0 /\ MaxMessageBuffer # 0 /\ ~hasFlag("CannotBeMuted")
    THEN count - 1 ELSE count

\* the kick of onThink already at kickAfterMinutes + 1 minutes
kickDueAtMinute(idle) == idle >= (KickAfterMinutes * 60000) + 60000

\* idleTime > (kickAfterMinutes * 60000) + 60000
kickDue(idle) == idle > (KickAfterMinutes * 60000) + 60000

\* Player::checkSkullTicks(ticks) without the test of the skull time left
checkSkullTicksAnyTime(ticks) ==
    LET newTicks == Max(0, skullTicks - ticks) IN
    [skullTicks |-> newTicks,
     skull |-> IF skull \in {"RED", "BLACK"} /\ ~inFight THEN "NONE" ELSE skull]

\* Player::checkSkullTicks(ticks)
checkSkullTicks(ticks) ==
    LET newTicks == Max(0, skullTicks - ticks) IN
    [skullTicks |-> newTicks,
     skull |-> IF skull \in {"RED", "BLACK"} /\ newTicks < 1 /\ ~inFight
               THEN "NONE" ELSE skull]

\* onThink(interval): the ping, the message buffer, the idle time and the
\* skull time (the offline training time and the momentum it goes on with
\* touch none of these)
onThink(interval, allowed) ==
        LET ping == sendPing(allowed)
            ticks == MessageBufferTicks + interval
            count == IF ticks >= 1500 THEN addMessageBuffer(MessageBufferCount)
                     ELSE MessageBufferCount
            counts == /\ "NOLOGOUT" \notin tileFlags
                      /\ ~accessPlayer
                      /\ ~exerciseTraining
            idle == IF counts THEN idleTime + interval ELSE idleTime
            kicked == counts /\ kickDue(idle)
            warned == /\ counts
                      /\ ~kicked
                      /\ client
                      /\ idle = 60000 * KickAfterMinutes
            checked == worldType # "PVP_ENFORCED"
            sk == IF checked THEN checkSkullTicks(interval \div 1000)
                  ELSE [skullTicks |-> skullTicks, skull |-> skull]
        IN  /\ online
            /\ lastPing' = ping.lastPing
            /\ attackedCreature' = IF ping.dropped THEN "none" ELSE attackedCreature
            /\ online' = (~ping.logout /\ ~kicked)
            /\ MessageBufferTicks' = IF ticks >= 1500 THEN 0 ELSE ticks
            /\ MessageBufferCount' = count
            /\ burst' = IF count < MessageBufferCount
                        THEN (IF count = 0 THEN 0 ELSE -1)
                        ELSE burst
            /\ idleTime' = idle
            /\ skullTicks' = sk.skullTicks
            /\ skull' = sk.skull
            /\ think' = [op |-> "onThink", interval |-> interval,
                         idleBefore |-> idleTime, kicked |-> kicked,
                         warned |-> warned, skullBefore |-> skull,
                         ticksBefore |-> skullTicks,
                         targetBefore |-> attackedCreature,
                         pinged |-> ping.pinged,
                         hasLostConnection |-> ping.hasLostConnection,
                         noPongTime |-> ping.noPongTime, dropped |-> ping.dropped,
                         canLogout |-> ping.canLogout, logout |-> ping.logout]
            /\ UNCHANGED <<invVars, destVars, besideSkull, schedVars, hitVars,
                           muteCount, unjustifiedKills, unixTime, inFight,
                           worldType, tileFlags, accessPlayer, exerciseTraining,
                           client, lastPong, isConnecting, pzLocked>>

\* onThink(interval) at the interval creatures think at
PlayerOnThink ==
    \E interval \in {ThinkInterval}, allowed \in BOOLEAN :
        /\ skullTicks <= MaxSkullTicks
        /\ onThink(interval, allowed)
        /\ UNCHANGED acctVars

\* the mute time with the count taken once
muteTimeLinear(muteCount_) == 5 * muteCount_

\* uint32_t muteTime = 5 * muteCount * muteCount, in seconds
muteTimeOf(muteCount_) == 5 * muteCount_ * muteCount_

\* removeMessageBuffer()
PlayerRemoveMessageBuffer ==
    LET counted == /\ ~hasFlag("CannotBeMuted")
                   /\ MaxMessageBuffer # 0
                   /\ MessageBufferCount <= MaxMessageBuffer + 1
        count == IF counted THEN MessageBufferCount + 1 ELSE MessageBufferCount
        muted == counted /\ count > MaxMessageBuffer
        held == IF muteCount = 0 THEN 1 ELSE muteCount
        calls_ == IF burst >= 0 THEN Min(burst + 1, MaxMessageBuffer + 3) ELSE -1
    IN  /\ online
        /\ muteCount < MaxMuteCount
        /\ MessageBufferCount' = count
        /\ muteCount' = IF muted THEN held + 1 ELSE muteCount
        /\ burst' = calls_
        /\ think' = [op |-> "removeMessageBuffer", call |-> calls_,
                     muted |-> muted, before |-> muteCount,
                     ticks |-> IF muted THEN muteTimeOf(held) * 1000 ELSE 0]
        /\ UNCHANGED <<invVars, destVars, progVars, schedVars, hitVars, acctVars, idleTime,
                       MessageBufferTicks, killVars, connVars>>

\* the kills of the list made at most window seconds ago, as the uint8_t
\* they are counted in
RECURSIVE killsWithin(_, _, _)
killsWithin(kills, window, i) ==
    IF i > Len(kills) THEN 0
    ELSE ((IF unixTime - kills[i] <= window THEN 1 ELSE 0)
          + killsWithin(kills, window, i + 1)) % 256

\* the skull and the skull time addUnjustifiedDead decides on with the
\* test for the red skull first
skullOfKillsRedFirst(dayKills, weekKills, monthKills) ==
    IF \/ dayKills >= DayKillsToRed
       \/ weekKills >= WeekKillsToRed
       \/ monthKills >= MonthKillsToRed
    THEN [skull |-> "RED", skullTicks |-> RedSkullDuration * 24 * 60 * 60 * 1000]
    ELSE [skull |-> skull, skullTicks |-> skullTicks]

\* the skull and the skull time addUnjustifiedDead decides on for a player
\* whose skull is not black
skullOfKills(dayKills, weekKills, monthKills) ==
    IF \/ dayKills >= 2 * DayKillsToRed
       \/ weekKills >= 2 * WeekKillsToRed
       \/ monthKills >= 2 * MonthKillsToRed
    THEN [skull |-> "BLACK", skullTicks |-> BlackSkullDuration * 24 * 60 * 60 * 1000]
    ELSE IF \/ dayKills >= DayKillsToRed
            \/ weekKills >= WeekKillsToRed
            \/ monthKills >= MonthKillsToRed
    THEN [skull |-> "RED", skullTicks |-> RedSkullDuration * 24 * 60 * 60 * 1000]
    ELSE [skull |-> skull, skullTicks |-> skullTicks]

\* addUnjustifiedDead(attacked); self tells whether attacked is the player
addUnjustifiedDead(self) ==
        LET kills == Append(unjustifiedKills, unixTime)
            dayKills == killsWithin(kills, 4 * 60 * 60, 1)
            weekKills == killsWithin(kills, 7 * 24 * 60 * 60, 1)
            monthKills == killsWithin(kills, 30 * 24 * 60 * 60, 1)
            sk == IF skull # "BLACK" THEN skullOfKills(dayKills, weekKills, monthKills)
                  ELSE [skull |-> skull, skullTicks |-> skullTicks]
        IN  /\ online
            /\ Len(unjustifiedKills) < MaxKills
            /\ IF hasFlag("NotGainInFight") \/ self \/ worldType = "PVP_ENFORCED"
               THEN /\ think' = [op |-> "addUnjustifiedDead", recorded |-> FALSE,
                                 skullBefore |-> skull, ticksBefore |-> skullTicks]
                    /\ UNCHANGED <<unjustifiedKills, skull, skullTicks>>
               ELSE /\ unjustifiedKills' = kills
                    /\ skull' = sk.skull
                    /\ skullTicks' = sk.skullTicks
                    /\ think' = [op |-> "addUnjustifiedDead", recorded |-> TRUE,
                                 skullBefore |-> skull, ticksBefore |-> skullTicks,
                                 dayKills |-> dayKills, weekKills |-> weekKills,
                                 monthKills |-> monthKills]
            /\ UNCHANGED <<invVars, destVars, besideSkull, schedVars, hitVars,
                           idleTime, msgVars, unixTime, inFight, worldType,
                           connVars>>

\* addUnjustifiedDead(attacked) of the player itself or of another
PlayerAddUnjustifiedDead ==
    \E self \in BOOLEAN :
        /\ addUnjustifiedDead(self)
        /\ UNCHANGED acctVars

\* a CONDITION_INFIGHT is added to the player
PlayerAddInFight ==
    /\ online
    /\ ~inFight
    /\ inFight' = TRUE
    /\ think' = [op |-> "addCondition", skullBefore |-> skull,
                 ticksBefore |-> skullTicks]
    /\ UNCHANGED <<invVars, destVars, progVars, schedVars, hitVars, acctVars, idleTime,
                   msgVars, skullTicks, unjustifiedKills, unixTime, worldType,
                   connVars>>

\* onEndCondition(CONDITION_INFIGHT), once the condition has ended
PlayerOnEndCondition ==
    /\ online
    /\ inFight
    /\ inFight' = FALSE
    /\ pzLocked' = FALSE
    /\ skull' = IF skull # "RED" /\ skull # "BLACK" THEN "NONE" ELSE skull
    /\ think' = [op |-> "onEndCondition", skullBefore |-> skull,
                 ticksBefore |-> skullTicks]
    /\ UNCHANGED <<invVars, destVars, besideSkull, schedVars, hitVars, acctVars, idleTime,
                   msgVars, skullTicks, unjustifiedKills, unixTime, worldType,
                   tileFlags, accessPlayer, exerciseTraining, online, client,
                   lastPing, lastPong, attackedCreature, isConnecting>>

\* the times of day the kills are followed at: the start, five hours, eight
\* days and thirty-one days later
KillTimes == {0, 5 * 60 * 60, 8 * 24 * 60 * 60, 31 * 24 * 60 * 60}

\* time(nullptr) goes on
WallClockPasses ==
    \E later \in KillTimes :
        /\ later > unixTime
        /\ unixTime' = later
        /\ think' = [op |-> "time"]
        /\ UNCHANGED <<invVars, destVars, progVars, schedVars, hitVars, acctVars, idleTime,
                       msgVars, skullTicks, unjustifiedKills, inFight, worldType,
                       connVars>>

\* OTSYS_TIME() goes on by a think interval
TimePasses ==
    /\ now - lastPong < MaxSilence * ThinkInterval
    /\ now' = now + ThinkInterval
    /\ think' = [op |-> "time"]
    /\ UNCHANGED <<invVars, destVars, progVars, laneVars, classicSpeed, lastAttack,
                   nextAction, attack, hitVars, acctVars, idleTime, msgVars, killVars,
                   connVars>>

\* setAttackedCreature(creature) with a player or another creature
PlayerSetAttackedCreature ==
    \E creature \in {"player", "monster"} :
        /\ online
        /\ attackedCreature = "none"
        /\ attackedCreature' = creature
        /\ think' = [op |-> "setAttackedCreature"]
        /\ UNCHANGED <<invVars, destVars, progVars, schedVars, hitVars, acctVars, idleTime,
                       msgVars, killVars, tileFlags, accessPlayer, exerciseTraining,
                       online, client, lastPing, lastPong, isConnecting, pzLocked>>

\* a player on a tile without logout, who sends messages
InitMute ==
    /\ AccountAtRest
    /\ InventoryAtRest
    /\ playerFlags \in {{}, {"CannotBeMuted"}}
    /\ ProgressionAtRest
    /\ SchedulerAtRest
    /\ HitAtRest
    /\ idleTime = 0
    /\ MessagesAtRest
    /\ KillsAtRest
    /\ tileFlags = {"NOLOGOUT"}
    /\ ConnectionAtRest
    /\ think = NoThink

NextMute ==
    \/ PlayerRemoveMessageBuffer
    \/ PlayerOnThink

SpecMute == InitMute /\ [][NextMute]_vars

\* resetIdleTime(), as the tasks of the player call it
PlayerResetIdleTime ==
    /\ online
    /\ idleTime > 0
    /\ idleTime' = 0
    /\ think' = [op |-> "resetIdleTime"]
    /\ UNCHANGED <<invVars, destVars, progVars, schedVars, hitVars, acctVars, msgVars,
                   killVars, connVars>>

\* a player who stands idle, on any tile and of any kind, with a client or
\* without
InitIdle ==
    /\ AccountAtRest
    /\ InventoryAtRest
    /\ playerFlags = {}
    /\ ProgressionAtRest
    /\ SchedulerAtRest
    /\ HitAtRest
    /\ idleTime = 0
    /\ MessagesAtRest
    /\ KillsAtRest
    /\ tileFlags \in {{}, {"NOLOGOUT"}}
    /\ accessPlayer \in BOOLEAN
    /\ exerciseTraining \in BOOLEAN
    /\ online = TRUE
    /\ client \in BOOLEAN
    /\ lastPing = StartTime
    /\ lastPong = StartTime
    /\ attackedCreature = "none"
    /\ isConnecting = FALSE
    /\ pzLocked = FALSE
    /\ think = NoThink

NextIdle ==
    \/ PlayerOnThink
    \/ PlayerResetIdleTime

SpecIdle == InitIdle /\ [][NextIdle]_vars

\* the fight a player is in at the start: none, a fight, a fight with the
\* protection zone locked
Fights ==
    { [inFight |-> FALSE, pzLocked |-> FALSE], [inFight |-> TRUE, pzLocked |-> FALSE],
      [inFight |-> TRUE, pzLocked |-> TRUE] }

\* an access player (whose idle time does not count) whose connection stays
\* silent from the start on
InitPing ==
    /\ AccountAtRest
    /\ InventoryAtRest
    /\ playerFlags = {}
    /\ ProgressionAtRest
    /\ SchedulerAtRest
    /\ HitAtRest
    /\ idleTime = 0
    /\ MessagesAtRest
    /\ skullTicks = 0
    /\ unjustifiedKills = <<>>
    /\ unixTime = 0
    /\ worldType = "PVP"
    /\ \E fight \in Fights :
          /\ inFight = fight.inFight
          /\ pzLocked = fight.pzLocked
    /\ tileFlags \in {{}, {"NOLOGOUT"}, {"PROTECTIONZONE"}}
    /\ accessPlayer = TRUE
    /\ exerciseTraining = FALSE
    /\ online = TRUE
    /\ client \in BOOLEAN
    /\ lastPing = StartTime
    /\ lastPong = StartTime
    /\ attackedCreature = "none"
    /\ isConnecting \in BOOLEAN
    /\ think = NoThink

NextPing ==
    \/ PlayerOnThink
    \/ PlayerSetAttackedCreature
    \/ TimePasses

SpecPing == InitPing /\ [][NextPing]_vars

\* the skull and the skull time a player logs in with
LoadedSkulls ==
    { [skull |-> "NONE", skullTicks |-> 0], [skull |-> "WHITE", skullTicks |-> 0],
      [skull |-> "RED", skullTicks |-> 0], [skull |-> "RED", skullTicks |-> 2],
      [skull |-> "BLACK", skullTicks |-> 2] }

\* a player on a tile without logout, who kills and fights
InitSkull ==
    /\ AccountAtRest
    /\ InventoryAtRest
    /\ playerFlags \in {{}, {"NotGainInFight"}}
    /\ StatsAtRest
    /\ SchedulerAtRest
    /\ HitAtRest
    /\ idleTime = 0
    /\ MessagesAtRest
    /\ \E loaded \in LoadedSkulls :
          /\ skull = loaded.skull
          /\ skullTicks = loaded.skullTicks
    /\ unjustifiedKills = <<>>
    /\ unixTime = 0
    /\ inFight = FALSE
    /\ worldType \in {"PVP", "PVP_ENFORCED"}
    /\ tileFlags = {"NOLOGOUT"}
    /\ ConnectionAtRest
    /\ think = NoThink

NextSkull ==
    \/ PlayerAddUnjustifiedDead
    \/ PlayerAddInFight
    \/ PlayerOnEndCondition
    \/ PlayerOnThink
    \/ WallClockPasses

SpecSkull == InitSkull /\ [][NextSkull]_vars

-----------------------------------------------------------------------------
(* The properties of the scheduler tasks and of the attacks *)

\* the id each lane's field holds
LaneField ==
    [walk |-> walkTaskEvent, nextStep |-> nextStepEvent, action |-> actionTaskEvent,
     push |-> actionTaskEventPush, potion |-> actionPotionTaskEvent]

\* in the last operation every stopEvent of a lane came before the addEvent
\* of that lane, and no lane was added to twice
StoppedBeforeAdded ==
    \A i, j \in DOMAIN calls :
        (calls[j].call = "addEvent" /\ calls[i].lane = calls[j].lane /\ i # j) =>
            (calls[i].call = "stopEvent" /\ i < j)

\* C13 as stated: for each of the five lanes (walk, next-step, next-action,
\* next-action-push, next-potion), after any sequence of the setters,
\* cancelPush, onWalkComplete and doAttacking, at most one task scheduled by
\* the player is pending in that lane and it is the one whose id the lane's
\* field holds; replacing a pending task stops its predecessor before the
\* new one is added.
C13_OneTaskPerLane ==
    /\ \A e \in pending : e.id = LaneField[e.lane]
    /\ StoppedBeforeAdded

\* C13, amended: for each of the five lanes, after any sequence of these
\* operations, at most one task scheduled through the lane's setter (or
\* onWalkComplete) is pending and it is the one whose id the lane's field
\* holds; replacing a pending task stops its predecessor before the new one
\* is added. With CLASSIC_ATTACK_SPEED the check task of doAttacking is given
\* to the scheduler directly: its id is held by no field, it is stopped by no
\* operation of the player and several of them can be pending at a time.
C13_OneKeptTaskPerLane ==
    /\ \A e \in pending :
          IF e.by = "doAttacking"
          THEN classicSpeed /\ \A lane \in TaskLanes : LaneField[lane] # e.id
          ELSE e.id = LaneField[e.lane]
    /\ StoppedBeforeAdded

\* a pending next-action task has just been replaced while a check task of
\* doAttacking is pending too
C13_Witness ==
    /\ \E i, j \in DOMAIN calls :
          /\ i < j
          /\ calls[i].call = "stopEvent" /\ calls[i].wasPending
          /\ calls[j].call = "addEvent"
          /\ calls[i].lane = "action" /\ calls[j].lane = "action"
    /\ \E e \in pending : e.by = "doAttacking"
    /\ \E e \in pending : e.id = actionTaskEvent

\* lastAttack as doAttacking leaves it when no use succeeded
Started(before, at) == IF before = 0 THEN at - AttackSpeed - 1 ELSE before

\* C14 as stated: every call of doAttacking schedules a next-attack check
\* task, whether or not the attack was due and whether or not the player is
\* pacified, and lastAttack is set to the current time exactly when the
\* weapon or fist use succeeded.
C14_AlwaysSchedules ==
    attack.op = "doAttacking" =>
        /\ attack.scheduled
        /\ lastAttack = IF attack.result THEN attack.at
                        ELSE Started(attack.before, attack.at)

\* C14, amended: a call of doAttacking schedules a next-attack check task
\* exactly when the player is not pacified and the attack is due (the time
\* since lastAttack is at least the attack speed; a lastAttack of 0 counts as
\* due), whether or not the use succeeded; a pacified player and an attack
\* that is not due schedule nothing. lastAttack is set to the current time
\* exactly when the weapon or fist use succeeded, which takes a due attack of
\* a player who is not pacified; otherwise it is left as it was (0 becomes
\* the current time less the attack speed less 1).
C14_SchedulesWhenDue ==
    attack.op = "doAttacking" =>
        /\ attack.scheduled = (~attack.pacified /\ attack.due)
        /\ attack.result => (~attack.pacified /\ attack.due)
        /\ lastAttack = IF attack.result THEN attack.at
                        ELSE Started(attack.before, attack.at)

\* a call of doAttacking before the attack was due, by a player who is not
\* pacified: nothing was scheduled
C14_Witness ==
    /\ attack.op = "doAttacking"
    /\ ~attack.pacified
    /\ ~attack.due
    /\ ~attack.scheduled
    /\ attack.before # 0
    /\ lastAttack = attack.before

\* C15: when the creature-level block in blockHit returns none and the
\* incoming damage is > 0, then on return either damage > 0 with block type
\* none, or damage = 0 with block type armor; damage is never negative on
\* return, whatever absorb percentages, imbuements, potion conditions and
\* Wheel-of-Destiny reductions apply.
C15_DamageClamped ==
    (/\ hit.op = "blockHit"
     /\ hit.creature.blockType = "NONE"
     /\ hit.creature.damage > 0) =>
        \/ hit.damage > 0 /\ hit.blockType = "NONE"
        \/ hit.damage = 0 /\ hit.blockType = "ARMOR"

\* a hit of 13 that the absorbs took below 0 and that is returned as 0,
\* blocked by the armor, with a charge of an item used up
C15_Witness ==
    /\ hit.op = "blockHit"
    /\ hit.creature.blockType = "NONE"
    /\ hit.creature.damage = 13
    /\ hit.damage = 0
    /\ hit.blockType = "ARMOR"
    /\ \E i \in DOMAIN worn : worn[i].absorb = 150
    /\ \E i \in DOMAIN worn : worn[i].absorb = 50 /\ worn[i].charges = 1

-----------------------------------------------------------------------------
(* The properties of onThink and of the operations around it *)

\* the value of muteCountMap[guid] a mute is issued at, 1 when absent
HeldMuteCount == IF think.before = 0 THEN 1 ELSE think.before

\* C16: with MAX_MESSAGEBUFFER = N > 0 and a player without CannotBeMuted,
\* the (N+1)-th removeMessageBuffer call without intervening buffer decay
\* adds a MUTED condition (the calls before it add none); the mute issued
\* when muteCountMap holds k for the guid (k = 1 when absent) lasts 5 k^2
\* seconds (5 000 ms first, 20 000 ms on the repeat) and each mute raises
\* muteCountMap[guid] by exactly one (absent becomes 2).
C16_MuteEscalates ==
    (think.op = "removeMessageBuffer" /\ ~hasFlag("CannotBeMuted")) =>
        /\ think.call = MaxMessageBuffer + 1 => think.muted
        /\ think.call \in 1..MaxMessageBuffer => ~think.muted
        /\ think.muted =>
              /\ think.ticks = 5 * HeldMuteCount * HeldMuteCount * 1000
              /\ muteCount = HeldMuteCount + 1
              /\ think.before = 0 => (think.ticks = 5000 /\ muteCount = 2)
              /\ think.before = 2 => think.ticks = 20000
        /\ ~think.muted => muteCount = think.before

\* the repeat: the (N+1)-th call of a burst mutes for 20 000 ms a player
\* whose guid muteCountMap held 2 for
C16_Witness ==
    /\ think.op = "removeMessageBuffer"
    /\ ~hasFlag("CannotBeMuted")
    /\ think.call = MaxMessageBuffer + 1
    /\ think.muted
    /\ think.before = 2
    /\ think.ticks = 20000
    /\ muteCount = 3

\* the number of recorded kills made at most window seconds ago
KillsIn(window) ==
    Cardinality({i \in DOMAIN unjustifiedKills :
                    unixTime - unjustifiedKills[i] <= window})

DayKills == KillsIn(4 * 60 * 60)
WeekKills == KillsIn(7 * 24 * 60 * 60)
MonthKills == KillsIn(30 * 24 * 60 * 60)

\* C17: after addUnjustifiedDead on a player whose skull is not black (world
\* not PvP-enforced, no NotGainInFight flag): if the recorded kills within
\* 4 h, 7 d or 30 d reach twice the respective configured threshold the skull
\* becomes black with skullTicks = BLACK_SKULL_DURATION x 86 400 x 1000;
\* otherwise if any count reaches its threshold the skull becomes red with
\* skullTicks = RED_SKULL_DURATION x 86 400 x 1000; otherwise skull and
\* skullTicks are unchanged. In particular, six kills within 4 h at a
\* threshold of 3 end with a black skull.
C17_SkullOfKills ==
    (/\ think.op = "addUnjustifiedDead"
     /\ think.recorded
     /\ think.skullBefore # "BLACK"
     /\ worldType # "PVP_ENFORCED"
     /\ ~hasFlag("NotGainInFight")) =>
        IF \/ DayKills >= 2 * DayKillsToRed
           \/ WeekKills >= 2 * WeekKillsToRed
           \/ MonthKills >= 2 * MonthKillsToRed
        THEN /\ skull = "BLACK"
             /\ skullTicks = BlackSkullDuration * 86400 * 1000
        ELSE IF \/ DayKills >= DayKillsToRed
                \/ WeekKills >= WeekKillsToRed
                \/ MonthKills >= MonthKillsToRed
        THEN /\ skull = "RED"
             /\ skullTicks = RedSkullDuration * 86400 * 1000
        ELSE /\ skull = think.skullBefore
             /\ skullTicks = think.ticksBefore

\* the kill that is the last of 2 x DAY_KILLS_TO_RED within 4 h turns the
\* red skull black
C17_Witness ==
    /\ think.op = "addUnjustifiedDead"
    /\ think.recorded
    /\ think.skullBefore = "RED"
    /\ DayKills = 2 * DayKillsToRed
    /\ skull = "BLACK"
    /\ skullTicks = BlackSkullDuration * 86400 * 1000

\* C18: a red or black skull is cleared by the per-think skull check exactly
\* when skullTicks has reached 0 and the player has no INFIGHT condition;
\* while skullTicks >= 1 or INFIGHT is present the red or black skull is kept
\* (the end of INFIGHT alone never clears it); in enforced-PvP worlds onThink
\* never decrements skullTicks (the check is not made there).
C18_SkullCleared ==
    /\ (think.op = "onThink" /\ think.skullBefore \in {"RED", "BLACK"}) =>
          IF worldType # "PVP_ENFORCED"
          THEN /\ skullTicks = Max(0, think.ticksBefore - 1)
               /\ IF skullTicks = 0 /\ ~inFight
                  THEN skull = "NONE"
                  ELSE skull = think.skullBefore
          ELSE /\ skullTicks = think.ticksBefore
               /\ skull = think.skullBefore
    /\ (think.op = "onThink" /\ worldType = "PVP_ENFORCED") =>
          skullTicks = think.ticksBefore
    /\ (think.op = "onEndCondition" /\ think.skullBefore \in {"RED", "BLACK"}) =>
          /\ skull = think.skullBefore
          /\ skullTicks = think.ticksBefore

\* the think that takes the skull time of a red skull to 0, the player not
\* being in a fight, clears the skull
C18_Witness ==
    /\ think.op = "onThink"
    /\ think.skullBefore = "RED"
    /\ think.ticksBefore = 1
    /\ ~inFight
    /\ skullTicks = 0
    /\ skull = "NONE"

\* whether onThink counts the idle time of the player
IdleCounts ==
    /\ "NOLOGOUT" \notin tileFlags
    /\ ~accessPlayer
    /\ ~exerciseTraining

\* C19: in onThink, for a non-access, non-exercise-training player on a tile
\* without NOLOGOUT, idleTime grows by the interval, the player is kicked as
\* soon as idleTime exceeds (KICK_AFTER_MINUTES + 1) minutes, and the
\* one-minute warning is sent (to the client, if there is one) when idleTime
\* is exactly KICK_AFTER_MINUTES minutes; for an access player, an
\* exercise-training player or a NOLOGOUT tile idleTime is left unchanged and
\* there is neither warning nor kick.
C19_IdleKick ==
    think.op = "onThink" =>
        IF IdleCounts
        THEN /\ idleTime = think.idleBefore + think.interval
             /\ think.kicked <=> idleTime > (KickAfterMinutes + 1) * 60000
             /\ think.kicked => /\ ~online
                                /\ think.idleBefore <= (KickAfterMinutes + 1) * 60000
             /\ think.warned <=> (client /\ idleTime = KickAfterMinutes * 60000)
        ELSE /\ idleTime = think.idleBefore
             /\ ~think.kicked
             /\ ~think.warned

\* the think that takes the idle time past KICK_AFTER_MINUTES + 1 minutes
\* kicks the player
C19_Witness ==
    /\ think.op = "onThink"
    /\ IdleCounts
    /\ think.idleBefore = (KickAfterMinutes + 1) * 60000
    /\ idleTime = (KickAfterMinutes + 1) * 60000 + ThinkInterval
    /\ think.kicked
    /\ ~online

\* C20 as the specification states it: the attacked target is dropped once
\* the pong silence reaches 7 s or the client handle is gone
C20_TargetDropped ==
    (/\ think.op = "onThink"
     /\ think.targetBefore # "none"
     /\ (now - lastPong >= 7000 \/ ~client)) =>
        attackedCreature = "none"

\* C20: in sendPing the attacked target is dropped exactly when it is a
\* player and the pong silence has reached 7 s or a ping round has found the
\* client handle gone; logout is requested only once the pong silence has
\* reached 60 s and canLogout() holds, so that no player is the target any
\* more when logout is requested; a player for whom canLogout() is false
\* (connecting, NOLOGOUT tile, or pz-locked or in fight outside a protection
\* zone) is never logged out by the ping loop.
C20_PingLoop ==
    think.op = "onThink" =>
        /\ think.noPongTime = now - lastPong
        /\ think.hasLostConnection => (~client /\ lastPing = now)
        /\ think.dropped <=>
              /\ think.targetBefore = "player"
              /\ (think.hasLostConnection \/ now - lastPong >= 7000)
        /\ attackedCreature = IF think.dropped THEN "none" ELSE think.targetBefore
        /\ think.logout =>
              /\ now - lastPong >= 60000
              /\ attackedCreature # "player"
              /\ ~online
        /\ (\/ isConnecting
            \/ "NOLOGOUT" \in tileFlags
            \/ ("PROTECTIONZONE" \notin tileFlags /\ (pzLocked \/ inFight))) =>
              (~think.logout /\ online)

\* the ping at 60 s of pong silence logs the player out, the player
\* attacked being the target no more
C20_Witness ==
    /\ think.op = "onThink"
    /\ now - lastPong = 60000
    /\ think.targetBefore = "none"
    /\ think.logout
    /\ ~online

-----------------------------------------------------------------------------
(* Player::onRemoveCreature: the session is left and the player is saved *)

\* for (uint32_t tries = 0; tries < 3; ++tries)
SaveTries == 3

\* the variables but those of the removal and the connection
besideRemoval == <<invVars, destVars, progVars, schedVars, hitVars, idleTime, msgVars,
                   killVars, think, regVars, ownVars, heldVars>>

\* the savePlayer calls of a loop that goes on after a success
saveEveryTry(answers) == SubSeq(answers, 1, SaveTries)

\* the savePlayer calls of the loop: up to the first that succeeds, answers
\* being what IOLoginData::savePlayer returns on each try
saveLoop(answers) ==
    IF \E i \in 1..SaveTries : answers[i]
    THEN SubSeq(answers, 1, CHOOSE i \in 1..SaveTries :
                                /\ answers[i]
                                /\ \A j \in 1..(i - 1) : ~answers[j])
    ELSE SubSeq(answers, 1, SaveTries)

\* onRemoveCreature(creature, isLogout); self tells whether creature is the
\* player
PlayerOnRemoveCreature ==
    \E self \in BOOLEAN, isLogout \in BOOLEAN,
       answers \in [1..SaveTries -> BOOLEAN] :
        LET tried == saveLoop(answers)
            saved == \E i \in 1..Len(tried) : tried[i]
        IN  /\ online
            /\ removal' = [op |-> "onRemoveCreature", self |-> self,
                           isLogout |-> isLogout, tradePartner |-> tradePartner,
                           party |-> party, guild |-> guild,
                           attempts |-> Len(saveAttempts),
                           warnings |-> saveWarnings]
            /\ IF self
               THEN /\ loginPosition' = IF isLogout THEN position ELSE loginPosition
                    /\ tradePartner' = FALSE
                    /\ party' = FALSE
                    /\ guild' = FALSE
                    /\ saveAttempts' = saveAttempts \o tried
                    /\ saveWarnings' = IF saved THEN saveWarnings ELSE saveWarnings + 1
                    /\ online' = FALSE
               ELSE UNCHANGED <<loginPosition, tradePartner, party, guild,
                                saveAttempts, saveWarnings, online>>
            /\ UNCHANGED <<besideRemoval, position, tileFlags, accessPlayer,
                           exerciseTraining, client, lastPing, lastPong,
                           attackedCreature, isConnecting, pzLocked>>

\* a player somewhere, in a trade, a party and a guild or not
InitRemoval ==
    /\ InventoryAtRest
    /\ playerFlags = {}
    /\ ProgressionAtRest
    /\ SchedulerAtRest
    /\ ThinkAtRest
    /\ HitAtRest
    /\ RegistryAtRest
    /\ OwnedAtRest
    /\ HeldAtRest
    /\ tradePartner \in BOOLEAN
    /\ party \in BOOLEAN
    /\ guild \in BOOLEAN
    /\ position \in {1, 2}
    /\ loginPosition = 1
    /\ saveAttempts = <<>>
    /\ saveWarnings = 0
    /\ removal = NoRemoval

NextRemoval == PlayerOnRemoveCreature

SpecRemoval == InitRemoval /\ [][NextRemoval]_vars

\* the savePlayer calls of the last onRemoveCreature call
LastSaves == SubSeq(saveAttempts, removal.attempts + 1, Len(saveAttempts))

\* C21: when the player itself is removed, savePlayer is attempted at most 3
\* times, no attempt is made after the first success, and the save-failure
\* warning is logged if and only if all 3 attempts failed.
C21_SaveRetries ==
    removal.op = "onRemoveCreature" =>
        IF removal.self
        THEN /\ Len(LastSaves) \in 1..3
             /\ \A i \in 1..(Len(LastSaves) - 1) : ~LastSaves[i]
             /\ saveWarnings - removal.warnings \in {0, 1}
             /\ saveWarnings - removal.warnings = 1 <=>
                   (Len(LastSaves) = 3 /\ \A i \in 1..3 : ~LastSaves[i])
        ELSE /\ LastSaves = <<>>
             /\ saveWarnings = removal.warnings

\* the player is removed and the second savePlayer call succeeds
C21_Witness ==
    /\ removal.op = "onRemoveCreature"
    /\ removal.self
    /\ LastSaves = <<FALSE, TRUE>>
    /\ saveWarnings = removal.warnings

-----------------------------------------------------------------------------
(* Player::addStorageValue and Player::getStorageValue *)

\* the reserved key ranges: the first key and the size of each
KeyRanges ==
    [RESERVED |-> [start |-> 10000000, size |-> 10000000],
     OUTFITS |-> [start |-> 10001000, size |-> 500],
     MOUNTS |-> [start |-> 10002001, size |-> 10],
     FAMILIARS |-> [start |-> 10003000, size |-> 500]]

\* IS_IN_KEYRANGE(key, range)
IS_IN_KEYRANGE(key, range) ==
    /\ key >= KeyRanges[range].start
    /\ (key - KeyRanges[range].start) <= KeyRanges[range].size

\* PSTRG_MOUNTS_CURRENTMOUNT
MountsCurrentMount == KeyRanges.MOUNTS.start + 10

\* the keys followed: a plain key, a reserved key of no known range, the ends
\* of the outfit range, the first mount bucket, the current mount, a familiar
\* key and the key behind the reserved range
StorageKeys ==
    {5, 10000500, 10001000, 10001500, 10002001, MountsCurrentMount, 10003000,
     20000001}

\* the values followed: the erasing -1, a small value and lookType 128 with
\* addons 3
StorageValues == {-1, 7, (128 * 65536) + 3}

\* the number of outfits and familiars loaded through the reserved keys
MaxLoaded == 1

\* the variables but those of the storage
besideStorage == <<invVars, destVars, progVars, schedVars, thinkVars, hitVars,
                   removeVars, ownVars, heldVars, wardrobe, lookMount, speed, lastToggleMount,
                   wasMounted, premium, outfitCondition, ride>>

\* getStorageValue(key, value) on a storage map: the result and the value
getStorageValueIn(map, key) ==
    IF key \in DOMAIN map
    THEN [found |-> TRUE, value |-> map[key]]
    ELSE [found |-> FALSE, value |-> -1]

getStorageValue(key) == getStorageValueIn(storageMap, key)

\* storageMap[key] = value
setKey(map, key, value) ==
    [k \in DOMAIN map \cup {key} |-> IF k = key THEN value ELSE map[k]]

\* storageMap.erase(key)
eraseKey(map, key) == [k \in DOMAIN map \ {key} |-> map[k]]

\* what addStorageValue does with a key: the entry it decodes the value
\* into, the storage map, or nothing
storeKind(key) ==
    IF IS_IN_KEYRANGE(key, "RESERVED")
    THEN IF IS_IN_KEYRANGE(key, "OUTFITS") THEN "outfit"
         ELSE IF IS_IN_KEYRANGE(key, "MOUNTS") THEN "map"
         ELSE IF IS_IN_KEYRANGE(key, "FAMILIARS") THEN "familiar"
         ELSE "unknown"
    ELSE "map"

\* a storage that keeps every key in the map
storeAllIn(map, key, value) == setKey(map, key, value)

\* the storage map after addStorageValue(key, value)
storeIn(map, key, value) ==
    IF storeKind(key) # "map" THEN map
    ELSE IF value # -1 THEN setKey(map, key, value)
    ELSE eraseKey(map, key)

\* OutfitEntry(value >> 16, value & 0xFF), as uint16_t and uint8_t
outfitOfValue(value) ==
    [lookType |-> (value \div 65536) % 65536, addons |-> value % 256]

\* addStorageValue(key, value, isLogin)
PlayerAddStorageValue ==
    \E key \in StorageKeys, value \in StorageValues, isLogin \in BOOLEAN :
        LET kind == storeKind(key) IN
        /\ online
        /\ kind = "outfit" => Len(outfits) < MaxLoaded
        /\ kind = "familiar" => Len(familiars) < MaxLoaded
        /\ storageMap' = storeIn(storageMap, key, value)
        /\ outfits' = IF kind = "outfit"
                      THEN Append(outfits, outfitOfValue(value)) ELSE outfits
        /\ familiars' = IF kind = "familiar"
                        THEN Append(familiars, (value \div 65536) % 65536)
                        ELSE familiars
        /\ store' = [op |-> "addStorageValue", key |-> key, value |-> value,
                     old |-> getStorageValue(key),
                     event |-> kind = "map" /\ value # -1 /\ ~isLogin]
        /\ UNCHANGED besideStorage

InitStorage ==
    /\ InventoryAtRest
    /\ playerFlags = {}
    /\ ProgressionAtRest
    /\ SchedulerAtRest
    /\ ThinkAtRest
    /\ HitAtRest
    /\ AccountAtRest

NextStorage == PlayerAddStorageValue

SpecStorage == InitStorage /\ [][NextStorage]_vars

\* C22 as the specification states it: for every key, the reserved outfit,
\* mount and familiar ranges included, and every value but -1,
\* addStorageValue(k, v) followed by getStorageValue(k) returns (true, v)
C22_StoredEveryKey ==
    (store.op = "addStorageValue" /\ store.value # -1) =>
        getStorageValue(store.key) = [found |-> TRUE, value |-> store.value]

\* C22: for every key outside the reserved range or in the reserved mount
\* range, and every value but -1, addStorageValue(k, v) followed by
\* getStorageValue(k) returns (true, v); for a key of the reserved outfit or
\* familiar range the value is decoded into an outfit or a familiar and, as
\* for any other reserved key, the storage map is left as it was, so that
\* getStorageValue(k) returns what it returned before the call.
C22_StoredUnlessDecoded ==
    (store.op = "addStorageValue" /\ store.value # -1) =>
        LET reserved == store.key \in 10000000..20000000
            mounts == store.key \in 10002001..10002011
        IN  IF ~reserved \/ mounts
            THEN getStorageValue(store.key) = [found |-> TRUE, value |-> store.value]
            ELSE getStorageValue(store.key) = store.old

\* a value is stored under the first mount key and read back
C22_Witness ==
    /\ store.op = "addStorageValue"
    /\ store.key = 10002001
    /\ store.value = 7
    /\ getStorageValue(store.key) = [found |-> TRUE, value |-> 7]

-----------------------------------------------------------------------------
(* Player::addOutfit, Player::removeOutfit and Player::removeOutfitAddon *)

\* the lookTypes and the addon masks of the calls
LookTypes == {128, 129}
AddonMasks == 0..3

\* a | b and a & ~b of two uint8_t
RECURSIVE BitOr(_, _)
BitOr(a, b) ==
    IF a = 0 THEN b
    ELSE IF b = 0 THEN a
    ELSE (IF (a % 2) + (b % 2) > 0 THEN 1 ELSE 0) + (2 * BitOr(a \div 2, b \div 2))

RECURSIVE BitAndNot(_, _)
BitAndNot(a, b) ==
    IF a = 0 THEN 0
    ELSE (IF a % 2 = 1 /\ b % 2 = 0 THEN 1 ELSE 0)
         + (2 * BitAndNot(a \div 2, b \div 2))

\* the first entry of the list with the lookType, 0 when there is none
entryOf(list, lookType) ==
    IF \E i \in 1..Len(list) : list[i].lookType = lookType
    THEN CHOOSE i \in 1..Len(list) :
            /\ list[i].lookType = lookType
            /\ \A j \in 1..(i - 1) : list[j].lookType # lookType
    ELSE 0

\* an addOutfit that adds an entry whatever the list holds
addOutfitAlways(list, lookType, addons) ==
    Append(list, [lookType |-> lookType, addons |-> addons])

\* addOutfit(lookType, addons) on the list
addOutfit(list, lookType, addons) ==
    LET i == entryOf(list, lookType) IN
    IF i # 0 THEN [list EXCEPT ![i].addons = BitOr(@, addons)]
    ELSE Append(list, [lookType |-> lookType, addons |-> addons])

\* removeOutfit(lookType) on the list
removeOutfit(list, lookType) ==
    LET i == entryOf(list, lookType) IN
    IF i # 0 THEN SubSeq(list, 1, i - 1) \o SubSeq(list, i + 1, Len(list))
    ELSE list

\* a removeOutfitAddon that takes every addon
removeOutfitAddonAll(list, lookType, addons) ==
    LET i == entryOf(list, lookType) IN
    IF i # 0 THEN [list EXCEPT ![i].addons = 0] ELSE list

\* removeOutfitAddon(lookType, addons) on the list
removeOutfitAddon(list, lookType, addons) ==
    LET i == entryOf(list, lookType) IN
    IF i # 0 THEN [list EXCEPT ![i].addons = BitAndNot(@, addons)] ELSE list

\* the variables but the outfits and the last outfit operations
besideOutfits == <<invVars, destVars, progVars, schedVars, thinkVars, hitVars,
                   removeVars, ownVars, heldVars, storageMap, familiars, store, lookMount,
                   speed,
                   lastToggleMount, wasMounted, premium, outfitCondition, ride>>

\* what is kept of an outfit operation once another has followed it
Earlier(w) == [f \in DOMAIN w \ {"prev"} |-> w[f]]

\* the record of an outfit operation on the present list
OutfitCall(op, lookType, addons, result) ==
    LET i == entryOf(outfits, lookType) IN
    [op |-> op, lookType |-> lookType, addons |-> addons, len |-> Len(outfits),
     owned |-> i # 0, ownedAddons |-> IF i # 0 THEN outfits[i].addons ELSE 0,
     result |-> result, prev |-> Earlier(wardrobe)]

PlayerAddOutfit ==
    \E lookType \in LookTypes, addons \in AddonMasks :
        /\ online
        /\ outfits' = addOutfit(outfits, lookType, addons)
        /\ wardrobe' = OutfitCall("addOutfit", lookType, addons, TRUE)
        /\ UNCHANGED besideOutfits

PlayerRemoveOutfit ==
    \E lookType \in LookTypes :
        /\ online
        /\ outfits' = removeOutfit(outfits, lookType)
        /\ wardrobe' = OutfitCall("removeOutfit", lookType, 0,
                                  entryOf(outfits, lookType) # 0)
        /\ UNCHANGED besideOutfits

PlayerRemoveOutfitAddon ==
    \E lookType \in LookTypes, addons \in AddonMasks :
        /\ online
        /\ outfits' = removeOutfitAddon(outfits, lookType, addons)
        /\ wardrobe' = OutfitCall("removeOutfitAddon", lookType, addons,
                                  entryOf(outfits, lookType) # 0)
        /\ UNCHANGED besideOutfits

InitOutfits ==
    /\ InventoryAtRest
    /\ playerFlags = {}
    /\ ProgressionAtRest
    /\ SchedulerAtRest
    /\ ThinkAtRest
    /\ HitAtRest
    /\ AccountAtRest

NextOutfits ==
    \/ PlayerAddOutfit
    \/ PlayerRemoveOutfit
    \/ PlayerRemoveOutfitAddon

SpecOutfits == InitOutfits /\ [][NextOutfits]_vars

\* removeOutfit(lookType) has followed addOutfit(lookType, addons)
AddedThenRemoved ==
    /\ wardrobe.op = "removeOutfit"
    /\ wardrobe.prev.op = "addOutfit"
    /\ wardrobe.prev.lookType = wardrobe.lookType

\* C23 as the specification states it: addOutfit(lookType, addons) followed
\* by removeOutfit(lookType) leaves the outfits list with the length it had
\* before the addOutfit, whether or not lookType was already owned
C23_LengthRestored ==
    AddedThenRemoved => Len(outfits) = wardrobe.prev.len

\* C23: addOutfit(lookType, addons) followed by removeOutfit(lookType) leaves
\* the outfits list with the length it had before the addOutfit when
\* lookType was not owned before; when it was owned the addOutfit only
\* merges the addons and the list ends one entry shorter, without lookType.
C23_LengthRestoredIfNew ==
    AddedThenRemoved =>
        /\ wardrobe.result
        /\ Len(outfits) = IF wardrobe.prev.owned
                          THEN wardrobe.prev.len - 1
                          ELSE wardrobe.prev.len
        /\ entryOf(outfits, wardrobe.lookType) = 0

\* an outfit that was not owned is added to a list of one and removed
C23_Witness ==
    /\ AddedThenRemoved
    /\ ~wardrobe.prev.owned
    /\ wardrobe.prev.len = 1
    /\ Len(outfits) = 1

\* the addons a mask holds
Addons(mask) == {i \in 0..7 : (mask \div (2 ^ i)) % 2 = 1}

\* the addons of the first entry with the lookType
AddonsOwned(lookType) == Addons(outfits[entryOf(outfits, lookType)].addons)

\* addOutfit(lookType, a) has followed removeOutfitAddon(lookType, a) on an
\* owned lookType
RemovedThenAdded ==
    /\ wardrobe.op = "addOutfit"
    /\ wardrobe.prev.op = "removeOutfitAddon"
    /\ wardrobe.prev.lookType = wardrobe.lookType
    /\ wardrobe.prev.addons = wardrobe.addons
    /\ wardrobe.prev.owned

\* C24 as the specification states it: for every owned lookType and every
\* addon mask a, removeOutfitAddon(lookType, a) followed by
\* addOutfit(lookType, a) leaves the addon set of the outfit as it was
\* before the removal, whether or not a was a subset of the owned addons
C24_AddonsRestored ==
    RemovedThenAdded =>
        AddonsOwned(wardrobe.lookType) = Addons(wardrobe.prev.ownedAddons)

\* C24: for every owned lookType and every addon mask a,
\* removeOutfitAddon(lookType, a) takes the addons of a from the outfit and
\* the addOutfit(lookType, a) that follows leaves the outfit with the addons
\* it had before the removal together with those of a: the addon set is as
\* it was before exactly when a was a subset of the owned addons.
C24_AddonsRestoredIfOwned ==
    RemovedThenAdded =>
        /\ wardrobe.owned
        /\ Addons(wardrobe.ownedAddons)
              = Addons(wardrobe.prev.ownedAddons) \ Addons(wardrobe.addons)
        /\ AddonsOwned(wardrobe.lookType)
              = Addons(wardrobe.prev.ownedAddons) \cup Addons(wardrobe.addons)
        /\ (AddonsOwned(wardrobe.lookType) = Addons(wardrobe.prev.ownedAddons))
              <=> (Addons(wardrobe.addons) \subseteq Addons(wardrobe.prev.ownedAddons))

\* the first addon of an outfit with both addons is removed and added again
C24_Witness ==
    /\ RemovedThenAdded
    /\ wardrobe.prev.ownedAddons = 3
    /\ wardrobe.addons = 1
    /\ wardrobe.ownedAddons = 2
    /\ AddonsOwned(wardrobe.lookType) = {0, 1}

-----------------------------------------------------------------------------
(* The mounts: tameMount, untameMount, hasMount, toggleMount, dismount and
   onChangeZone *)

\* g_game.mounts: two mounts of the first storage bucket, one of them for
\* premium accounts and without speed, and the first mount of the second
\* bucket
Mounts ==
    { [id |-> 1, clientId |-> 368, speed |-> 20, premium |-> FALSE],
      [id |-> 2, clientId |-> 369, speed |-> 0, premium |-> TRUE],
      [id |-> 32, clientId |-> 370, speed |-> 10, premium |-> FALSE] }

\* no mount (nullptr)
NoMount == [id |-> 0, clientId |-> 0, speed |-> 0, premium |-> FALSE]

\* the mount ids of the calls: those of the mounts and one of no mount
MountIds == {1, 2, 3, 32}

\* g_game.mounts.getMountByID(id)
getMountByID(id) ==
    IF \E mt \in Mounts : mt.id = id
    THEN CHOOSE mt \in Mounts : mt.id = id
    ELSE NoMount

\* const uint8_t tmpMountId = mountId - 1
tmpMountId(mountId) == (mountId - 1) % 256

\* PSTRG_MOUNTS_RANGE_START + (tmpMountId / 31)
mountKey(mountId) == KeyRanges.MOUNTS.start + (tmpMountId(mountId) \div 31)

\* 1 << (tmpMountId % 31)
mountBit(mountId) == 2 ^ (tmpMountId(mountId) % 31)

\* value & bit, for a value that is not negative
hasBit(value, bit) == (value \div bit) % 2 = 1

\* getCurrentMount() on a storage map
getCurrentMountIn(map) ==
    LET r == getStorageValueIn(map, MountsCurrentMount) IN
    IF r.found THEN r.value % 256 ELSE 0

getCurrentMount == getCurrentMountIn(storageMap)

\* setCurrentMount(mount) on a storage map
setCurrentMountIn(map, mount) == storeIn(map, MountsCurrentMount, mount)

\* isMounted()
isMounted == lookMount # 0

\* hasMount(mount) on a storage map
hasMountIn(map, mount) ==
    IF accessPlayer THEN TRUE
    ELSE IF mount.premium /\ ~premium THEN FALSE
    ELSE LET r == getStorageValueIn(map, mountKey(mount.id)) IN
         IF ~r.found THEN FALSE ELSE hasBit(r.value, mountBit(mount.id))

\* dismount(): the speed and the look of the player
dismount(map) ==
    LET mount == getMountByID(getCurrentMountIn(map)) IN
    [speed |-> IF mount # NoMount /\ mount.speed > 0
               THEN speed - mount.speed ELSE speed,
     lookMount |-> 0]

\* a tameMount that stores the bit of the mount alone
tameMountAlone(map, mountId) ==
    IF getMountByID(mountId) = NoMount THEN map
    ELSE storeIn(map, mountKey(mountId), mountBit(mountId))

\* tameMount(mountId) on a storage map
tameMount(map, mountId) ==
    IF getMountByID(mountId) = NoMount THEN map
    ELSE LET r == getStorageValueIn(map, mountKey(mountId)) IN
         storeIn(map, mountKey(mountId),
                 IF r.found THEN BitOr(r.value, mountBit(mountId))
                 ELSE mountBit(mountId))

\* untameMount(mountId): the result, the storage map, the speed and the look
untameMount(mountId) ==
    LET r == getStorageValueIn(storageMap, mountKey(mountId))
        cleared == storeIn(storageMap, mountKey(mountId),
                           BitAndNot(r.value, mountBit(mountId)))
        current == getCurrentMountIn(cleared) = mountId
        off == IF current /\ isMounted THEN dismount(cleared)
               ELSE [speed |-> speed, lookMount |-> lookMount]
    IN  IF getMountByID(mountId) = NoMount
        THEN [ok |-> FALSE, map |-> storageMap, speed |-> speed,
              lookMount |-> lookMount]
        ELSE IF ~r.found
        THEN [ok |-> TRUE, map |-> storageMap, speed |-> speed,
              lookMount |-> lookMount]
        ELSE [ok |-> TRUE,
              map |-> IF current THEN setCurrentMountIn(cleared, 0) ELSE cleared,
              speed |-> off.speed, lookMount |-> off.lookMount]

\* a toggleMount call that changes nothing but, where told so, the current
\* mount
Rejected(cancel, map) ==
    [ok |-> FALSE, cancel |-> cancel, map |-> map, lookMount |-> lookMount,
     speed |-> speed, lastToggleMount |-> lastToggleMount]

\* a toggleMount without the test of the time since the last toggle
toggleMountAnyTime(mount, knownOutfit, was, flags) ==
    IF mount /\ ~isMounted /\ getCurrentMount # 0
    THEN LET currentMount == getMountByID(getCurrentMount) IN
         [ok |-> TRUE, cancel |-> "none", map |-> storageMap,
          lookMount |-> currentMount.clientId, speed |-> speed + currentMount.speed,
          lastToggleMount |-> now]
    ELSE Rejected("none", storageMap)

\* toggleMount(mount) with wasMounted = was on a tile with the flags;
\* knownOutfit tells whether the outfit of the player is one
\* Outfits::getOutfitByLookType finds
toggleMount(mount, knownOutfit, was, flags) ==
    IF (now - lastToggleMount) < 3000 /\ ~was
    THEN Rejected("YOUAREEXHAUSTED", storageMap)
    ELSE IF mount
    THEN LET currentMountId == getCurrentMount
             currentMount == getMountByID(currentMountId)
         IN  IF isMounted THEN Rejected("none", storageMap)
             ELSE IF ~accessPlayer /\ "PROTECTIONZONE" \in flags
             THEN Rejected("ACTIONNOTPERMITTEDINPROTECTIONZONE", storageMap)
             ELSE IF ~knownOutfit THEN Rejected("none", storageMap)
             ELSE IF currentMountId = 0 THEN Rejected("outfitWindow", storageMap)
             ELSE IF currentMount = NoMount THEN Rejected("none", storageMap)
             ELSE IF ~hasMountIn(storageMap, currentMount)
             THEN Rejected("outfitWindow", setCurrentMountIn(storageMap, 0))
             ELSE IF currentMount.premium /\ ~premium
             THEN Rejected("YOUNEEDPREMIUMACCOUNT", storageMap)
             ELSE IF outfitCondition THEN Rejected("NOTPOSSIBLE", storageMap)
             ELSE [ok |-> TRUE, cancel |-> "none", map |-> storageMap,
                   lookMount |-> currentMount.clientId,
                   speed |-> speed + currentMount.speed,
                   lastToggleMount |-> now]
    ELSE IF ~isMounted THEN Rejected("none", storageMap)
    ELSE LET off == dismount(storageMap) IN
         [ok |-> TRUE, cancel |-> "none", map |-> storageMap,
          lookMount |-> off.lookMount, speed |-> off.speed,
          lastToggleMount |-> now]

\* the bits set in the mount buckets: the bucket and the bit of each
TamedBits(map) ==
    {b \in (0..1) \X (0..30) :
        LET r == getStorageValueIn(map, KeyRanges.MOUNTS.start + b[1]) IN
        r.found /\ hasBit(r.value, 2 ^ b[2])}

\* what is kept of a mount operation once another has followed it
EarlierRide(r) == [f \in DOMAIN r \ {"prev"} |-> r[f]]

\* the record of a mount operation on the present state
MountCall(op, arg, ok, cancel) ==
    [op |-> op, arg |-> arg, ok |-> ok, cancel |-> cancel,
     tamed |-> TamedBits(storageMap), current |-> getCurrentMount,
     bucket |-> IF op \in {"tameMount", "untameMount"}
                THEN getStorageValueIn(storageMap, mountKey(arg)).found
                ELSE FALSE,
     lookMount |-> lookMount, speed |-> speed,
     lastToggleMount |-> lastToggleMount, wasMounted |-> wasMounted,
     target |-> attackedCreature,
     prev |-> IF op \in {"tameMount", "untameMount"} THEN EarlierRide(ride)
              ELSE NoRide]

\* the variables no mount operation changes
besideMounts == <<invVars, destVars, progVars, laneVars, classicSpeed, lastAttack,
                  nextAction, attack, hitVars, removeVars, ownVars, heldVars, idleTime,
                  msgVars,
                  killVars, accessPlayer, exerciseTraining, online, client,
                  lastPing, lastPong, isConnecting, pzLocked, think, outfits,
                  familiars, store, wardrobe, premium>>

PlayerTameMount ==
    \E mountId \in MountIds :
        /\ online
        /\ storageMap' = tameMount(storageMap, mountId)
        /\ ride' = MountCall("tameMount", mountId,
                             getMountByID(mountId) # NoMount, "none")
        /\ UNCHANGED <<besideMounts, now, tileFlags, attackedCreature, lookMount,
                       speed, lastToggleMount, wasMounted, outfitCondition>>

PlayerUntameMount ==
    \E mountId \in MountIds :
        LET r == untameMount(mountId) IN
        /\ online
        /\ storageMap' = r.map
        /\ lookMount' = r.lookMount
        /\ speed' = r.speed
        /\ ride' = MountCall("untameMount", mountId, r.ok, "none")
        /\ UNCHANGED <<besideMounts, now, tileFlags, attackedCreature,
                       lastToggleMount, wasMounted, outfitCondition>>

\* setCurrentMount(mount), called with a mount the player has
PlayerSetCurrentMount ==
    \E mt \in Mounts :
        /\ online
        /\ ~isMounted
        /\ hasMountIn(storageMap, mt)
        /\ storageMap' = setCurrentMountIn(storageMap, mt.id)
        /\ ride' = MountCall("setCurrentMount", mt.id, TRUE, "none")
        /\ UNCHANGED <<besideMounts, now, tileFlags, attackedCreature, lookMount,
                       speed, lastToggleMount, wasMounted, outfitCondition>>

PlayerToggleMount ==
    \E mount \in BOOLEAN, knownOutfit \in BOOLEAN :
        LET r == toggleMount(mount, knownOutfit, wasMounted, tileFlags) IN
        /\ online
        /\ storageMap' = r.map
        /\ lookMount' = r.lookMount
        /\ speed' = r.speed
        /\ lastToggleMount' = r.lastToggleMount
        /\ ride' = MountCall("toggleMount", mount, r.ok, r.cancel)
        /\ UNCHANGED <<besideMounts, now, tileFlags, attackedCreature, wasMounted,
                       outfitCondition>>

\* the time of the first mount operation: more than 3 s after the start
MountTime == StartTime + 3000

\* a player, of an access group or not, who has no mount yet
InitMounts ==
    /\ InventoryAtRest
    /\ playerFlags = {}
    /\ ProgressionAtRest
    /\ LanesAtRest
    /\ inEventMovePush = FALSE
    /\ classicSpeed = FALSE
    /\ now = MountTime
    /\ lastAttack = 0
    /\ nextAction = 0
    /\ attack = NoAttack
    /\ HitAtRest
    /\ RemovalAtRest
    /\ OwnedAtRest
    /\ HeldAtRest
    /\ idleTime = 0
    /\ MessagesAtRest
    /\ KillsAtRest
    /\ tileFlags = {}
    /\ accessPlayer \in BOOLEAN
    /\ exerciseTraining = FALSE
    /\ online = TRUE
    /\ client = TRUE
    /\ lastPing = StartTime
    /\ lastPong = StartTime
    /\ attackedCreature = "none"
    /\ isConnecting = FALSE
    /\ pzLocked = FALSE
    /\ think = NoThink
    /\ storageMap = [k \in {} |-> 0]
    /\ outfits = <<>>
    /\ familiars = <<>>
    /\ store = NoStore
    /\ wardrobe = NoWardrobe
    /\ lookMount = 0
    /\ speed = BaseSpeed
    /\ lastToggleMount = 0
    /\ wasMounted = FALSE
    /\ premium = TRUE
    /\ outfitCondition = FALSE
    /\ ride = NoRide

NextMounts ==
    \/ PlayerTameMount
    \/ PlayerUntameMount
    \/ PlayerSetCurrentMount
    \/ PlayerToggleMount

SpecMounts == InitMounts /\ [][NextMounts]_vars

\* the bucket and the bit of a mount
BitOfMount(mountId) == <<(mountId - 1) \div 31, (mountId - 1) % 31>>

\* untameMount(id) has followed tameMount(id), id being a mount
TamedThenUntamed ==
    /\ ride.op = "untameMount"
    /\ ride.prev.op = "tameMount"
    /\ ride.prev.arg = ride.arg
    /\ \E mt \in Mounts : mt.id = ride.arg

\* tameMount(id) has followed untameMount(id), id being a mount
UntamedThenTamed ==
    /\ ride.op = "tameMount"
    /\ ride.prev.op = "untameMount"
    /\ ride.prev.arg = ride.arg
    /\ \E mt \in Mounts : mt.id = ride.arg

\* C25 as the specification states it: for every prior mount state,
\* tameMount(id) followed by untameMount(id) leaves the set of tamed mounts
\* as it was before the tameMount, and untameMount(id) followed by
\* tameMount(id) likewise
C25_MountsRestored ==
    (TamedThenUntamed \/ UntamedThenTamed) =>
        TamedBits(storageMap) = ride.prev.tamed

\* C25: for every valid mount id and every prior mount state, tameMount(id)
\* followed by untameMount(id) leaves the mount untamed and
\* untameMount(id) followed by tameMount(id) leaves it tamed; the set of
\* tamed mounts is as it was before the pair exactly when the mount was
\* untamed before the first and tamed before the second pair; no other
\* mount's bit changes in either order.
C25_MountsRestoredIfAsAfter ==
    /\ TamedThenUntamed =>
          /\ TamedBits(storageMap) = ride.prev.tamed \ {BitOfMount(ride.arg)}
          /\ ride.tamed = ride.prev.tamed \cup {BitOfMount(ride.arg)}
    /\ UntamedThenTamed =>
          /\ TamedBits(storageMap) = ride.prev.tamed \cup {BitOfMount(ride.arg)}
          /\ ride.tamed = ride.prev.tamed \ {BitOfMount(ride.arg)}

\* the second mount is tamed and untamed again while the first stays tamed
C25_Witness ==
    /\ TamedThenUntamed
    /\ ride.arg = 2
    /\ ride.prev.tamed = {BitOfMount(1)}
    /\ ride.tamed = {BitOfMount(1), BitOfMount(2)}
    /\ TamedBits(storageMap) = {BitOfMount(1)}

\* C26 as the specification states it: untameMount(id) where id is the
\* current mount and the player is mounted always leaves the player
\* dismounted (lookMount 0, the speed of the mount removed) with the current
\* mount reset to 0, a player who rides without a stored mount bucket
\* included
C26_UntameDismounts ==
    (/\ ride.op = "untameMount"
     /\ ride.current = ride.arg
     /\ ride.lookMount # 0) =>
        /\ lookMount = 0
        /\ getCurrentMount = 0
        /\ speed = BaseSpeed

\* an access player who rides the mount that is untamed, with no stored
\* bucket for it, rides on
C26_Witness ==
    /\ ride.op = "untameMount"
    /\ ride.current = ride.arg
    /\ ride.lookMount # 0
    /\ accessPlayer
    /\ ~ride.bucket
    /\ lookMount # 0
    /\ getCurrentMount = ride.arg

-----------------------------------------------------------------------------
(* toggleMount over time, onChangeZone and the OUTFIT condition *)

\* the time between two looks at the clock, in milliseconds
MountTick == 1500

\* the zones of the tiles and their flags
Zones == {"PROTECTION", "NOPVP", "NORMAL"}

flagsOfZone(zone) ==
    IF zone = "PROTECTION" THEN {"PROTECTIONZONE"}
    ELSE IF zone = "NOPVP" THEN {"NOPVPZONE"}
    ELSE {}

\* getZone() of the tile the player stands on
getZone ==
    IF "PROTECTIONZONE" \in tileFlags THEN "PROTECTION"
    ELSE IF "NOPVPZONE" \in tileFlags THEN "NOPVP"
    ELSE "NORMAL"

\* an onChangeZone that leaves the player on the mount
changeZoneMounted(zone, knownOutfit) ==
    [target |-> "none", cancelTarget |-> attackedCreature # "none",
     map |-> storageMap, lookMount |-> lookMount, speed |-> speed,
     lastToggleMount |-> lastToggleMount, wasMounted |-> wasMounted,
     toggled |-> FALSE]

\* onChangeZone(zone), the player standing on a tile of the zone
changeZone(zone, knownOutfit) ==
    IF zone = "PROTECTION"
    THEN LET cancels == attackedCreature # "none" /\ ~hasFlag("IgnoreProtectionZone")
             forced == ~accessPlayer /\ isMounted
             off == IF forced THEN dismount(storageMap)
                    ELSE [speed |-> speed, lookMount |-> lookMount]
         IN  [target |-> IF cancels THEN "none" ELSE attackedCreature,
              cancelTarget |-> cancels,
              map |-> storageMap, lookMount |-> off.lookMount, speed |-> off.speed,
              lastToggleMount |-> lastToggleMount,
              wasMounted |-> IF forced THEN TRUE ELSE wasMounted,
              toggled |-> FALSE]
    ELSE IF wasMounted
    THEN LET r == toggleMount(TRUE, knownOutfit, TRUE, flagsOfZone(zone)) IN
         [target |-> attackedCreature, cancelTarget |-> FALSE,
          map |-> r.map, lookMount |-> r.lookMount, speed |-> r.speed,
          lastToggleMount |-> r.lastToggleMount, wasMounted |-> FALSE,
          toggled |-> r.ok]
    ELSE [target |-> attackedCreature, cancelTarget |-> FALSE,
          map |-> storageMap, lookMount |-> lookMount, speed |-> speed,
          lastToggleMount |-> lastToggleMount, wasMounted |-> wasMounted,
          toggled |-> FALSE]

\* the player has stepped on a tile of another zone: onChangeZone(zone)
PlayerOnChangeZone ==
    \E zone \in Zones \ {getZone}, knownOutfit \in BOOLEAN :
        LET r == changeZone(zone, knownOutfit) IN
        /\ online
        /\ tileFlags' = flagsOfZone(zone)
        /\ attackedCreature' = r.target
        /\ storageMap' = r.map
        /\ lookMount' = r.lookMount
        /\ speed' = r.speed
        /\ lastToggleMount' = r.lastToggleMount
        /\ wasMounted' = r.wasMounted
        /\ ride' = MountCall("onChangeZone", zone, r.toggled,
                             IF r.cancelTarget THEN "cancelTarget" ELSE "none")
        /\ UNCHANGED <<besideMounts, now, outfitCondition>>

\* onAddCondition(CONDITION_OUTFIT)
PlayerAddOutfitCondition ==
    LET off == IF isMounted THEN dismount(storageMap)
               ELSE [speed |-> speed, lookMount |-> lookMount]
    IN  /\ online
        /\ ~outfitCondition
        /\ outfitCondition' = TRUE
        /\ lookMount' = off.lookMount
        /\ speed' = off.speed
        /\ ride' = MountCall("onAddCondition", "OUTFIT", TRUE, "none")
        /\ UNCHANGED <<besideMounts, now, tileFlags, attackedCreature, storageMap,
                       lastToggleMount, wasMounted>>

\* the OUTFIT condition has ended
PlayerEndOutfitCondition ==
    /\ online
    /\ outfitCondition
    /\ outfitCondition' = FALSE
    /\ ride' = MountCall("onEndCondition", "OUTFIT", TRUE, "none")
    /\ UNCHANGED <<besideMounts, now, tileFlags, attackedCreature, storageMap,
                   lookMount, speed, lastToggleMount, wasMounted>>

\* OTSYS_TIME() goes on by a tick
MountClock ==
    /\ now < MountTime + (MaxTicks * MountTick)
    /\ now' = now + MountTick
    /\ ride' = MountCall("time", now, TRUE, "none")
    /\ UNCHANGED <<besideMounts, tileFlags, attackedCreature, storageMap, lookMount,
                   speed, lastToggleMount, wasMounted, outfitCondition>>

\* the mounts a player logs in with: none, the first mount as the current
\* one, the first and the second with the second as the current one
Stables ==
    LET none == [k \in {} |-> 0] IN
    { none,
      setCurrentMountIn(tameMount(none, 1), 1),
      setCurrentMountIn(tameMount(tameMount(none, 1), 2), 2) }

\* a player on a tile of no zone, with a premium account or without, who may
\* attack somebody
InitToggle ==
    /\ InventoryAtRest
    /\ playerFlags \in {{}, {"IgnoreProtectionZone"}}
    /\ ProgressionAtRest
    /\ LanesAtRest
    /\ inEventMovePush = FALSE
    /\ classicSpeed = FALSE
    /\ now = MountTime
    /\ lastAttack = 0
    /\ nextAction = 0
    /\ attack = NoAttack
    /\ HitAtRest
    /\ RemovalAtRest
    /\ OwnedAtRest
    /\ HeldAtRest
    /\ idleTime = 0
    /\ MessagesAtRest
    /\ KillsAtRest
    /\ tileFlags = {}
    /\ accessPlayer \in BOOLEAN
    /\ exerciseTraining = FALSE
    /\ online = TRUE
    /\ client = TRUE
    /\ lastPing = StartTime
    /\ lastPong = StartTime
    /\ attackedCreature \in {"none", "player", "monster"}
    /\ isConnecting = FALSE
    /\ pzLocked = FALSE
    /\ think = NoThink
    /\ storageMap \in Stables
    /\ outfits = <<>>
    /\ familiars = <<>>
    /\ store = NoStore
    /\ wardrobe = NoWardrobe
    /\ lookMount = 0
    /\ speed = BaseSpeed
    /\ lastToggleMount = 0
    /\ wasMounted = FALSE
    /\ premium \in BOOLEAN
    /\ outfitCondition = FALSE
    /\ ride = NoRide

NextToggle ==
    \/ PlayerToggleMount
    \/ PlayerOnChangeZone
    \/ PlayerAddOutfitCondition
    \/ PlayerEndOutfitCondition
    \/ MountClock

SpecToggle == InitToggle /\ [][NextToggle]_vars

\* a toggleMount call left the look, the speed and the time of the last
\* toggle as they were
LeftAsItWas ==
    /\ lookMount = ride.lookMount
    /\ speed = ride.speed
    /\ lastToggleMount = ride.lastToggleMount

\* the calls toggleMount has to reject: within 3 s of the last toggle
\* unless wasMounted is set, mounting as a non-access player on a tile of a
\* protection zone, and mounting under an OUTFIT condition
ToBeRejected ==
    \/ (now - ride.lastToggleMount < 3000 /\ ~ride.wasMounted)
    \/ (ride.arg /\ ~accessPlayer /\ "PROTECTIONZONE" \in tileFlags)
    \/ (ride.arg /\ outfitCondition)

\* C27 as the specification states it: toggleMount returns false in the
\* three cases, and every rejected toggleMount leaves the mounted state, the
\* current mount, the speed and lastToggleMount unchanged
C27_RejectedChangesNothing ==
    ride.op = "toggleMount" =>
        /\ ToBeRejected => ~ride.ok
        /\ ~ride.ok => (LeftAsItWas /\ getCurrentMount = ride.current)

\* C27: toggleMount returns false when called within 3 s of the last
\* successful toggle unless wasMounted is set, when mounting as a non-access
\* player on a protection-zone tile, and when mounting while an OUTFIT
\* condition is active; every rejected toggleMount leaves the mounted state,
\* the speed and lastToggleMount unchanged, and the current mount too, but
\* for the call, rejected for no other reason before, that finds the
\* current mount is one the player does not have: that call resets the
\* current mount to 0.
C27_RejectedKeepsMountedState ==
    ride.op = "toggleMount" =>
        /\ ToBeRejected => ~ride.ok
        /\ ~ride.ok =>
              /\ LeftAsItWas
              /\ getCurrentMount \in {ride.current, 0}
              /\ getCurrentMount # ride.current =>
                    /\ ride.arg
                    /\ ride.lookMount = 0
                    /\ ~accessPlayer
                    /\ ride.cancel = "outfitWindow"
                    /\ \/ ~premium /\ ride.current = 2
                       \/ BitOfMount(ride.current) \notin ride.tamed
        /\ ride.ok =>
              /\ lastToggleMount = now
              /\ (lookMount # 0) = ride.arg
              /\ (ride.lookMount # 0) = ~ride.arg

\* a toggleMount(true) within 3 s of the dismount is rejected and changes
\* nothing
C27_Witness ==
    /\ ride.op = "toggleMount"
    /\ ride.arg
    /\ ~ride.ok
    /\ ride.cancel = "YOUAREEXHAUSTED"
    /\ now - ride.lastToggleMount = MountTick
    /\ ride.current = 1
    /\ LeftAsItWas
    /\ getCurrentMount = 1

\* C28 as the specification states it: after onChangeZone(ZONE_PROTECTION),
\* for every player state, a non-access player is not mounted and the
\* player has no attacked creature
C28_ZoneClearsTarget ==
    (ride.op = "onChangeZone" /\ ride.arg = "PROTECTION") =>
        /\ ~accessPlayer => lookMount = 0
        /\ attackedCreature = "none"

\* C28: after onChangeZone(ZONE_PROTECTION) a non-access player is not
\* mounted (a player who was mounted has wasMounted set), and a player
\* without PlayerFlag_IgnoreProtectionZone has no attacked creature (the
\* target was cancelled and the client told so); a player with the flag
\* keeps the attacked creature.
C28_ZoneClearsTargetUnlessIgnored ==
    (ride.op = "onChangeZone" /\ ride.arg = "PROTECTION") =>
        /\ ~accessPlayer =>
              /\ lookMount = 0
              /\ ride.lookMount # 0 => wasMounted
        /\ accessPlayer => lookMount = ride.lookMount
        /\ ~hasFlag("IgnoreProtectionZone") =>
              /\ attackedCreature = "none"
              /\ ride.target # "none" => ride.cancel = "cancelTarget"
        /\ hasFlag("IgnoreProtectionZone") => attackedCreature = ride.target

\* a mounted player who attacks a player steps into a protection zone
C28_Witness ==
    /\ ride.op = "onChangeZone"
    /\ ride.arg = "PROTECTION"
    /\ ~accessPlayer
    /\ ~hasFlag("IgnoreProtectionZone")
    /\ ride.lookMount # 0
    /\ ride.target = "player"
    /\ lookMount = 0
    /\ wasMounted
    /\ attackedCreature = "none"

-----------------------------------------------------------------------------
(* The VIP list: addVIP, addVIPInternal, removeVIP, getMaxVIPEntries *)

\* the maxVipEntries of the groups: none of its own, a small one and one
\* above the 200 of the client
GroupMaxima == {0, 5, 300}

\* a getMaxVIPEntries that gives every player the entries of a premium one
getMaxVIPEntriesPremium(groupMax) ==
    IF groupMax # 0 THEN groupMax ELSE 100

\* getMaxVIPEntries(), groupMax being group->maxVipEntries
getMaxVIPEntries(groupMax) ==
    IF groupMax # 0 THEN groupMax
    ELSE IF premium THEN 100
    ELSE 20

\* VIPList.size() >= getMaxVIPEntries() || VIPList.size() == 200
vipFull ==
    \/ Cardinality(VIPList) >= getMaxVIPEntries(maxVipEntries)
    \/ Cardinality(VIPList) = 200

\* the guids of the calls: the players are taken into the list in the order
\* of their guids and out of it in the reverse order, so that the list
\* holds the guids 1..n; a call names the first or the last guid of the list
\* or the first guid outside it
VipGuids == {1, Cardinality(VIPList), Cardinality(VIPList) + 1} \ {0}

\* the variables but those of the VIP list
besideVip == <<invVars, destVars, progVars, schedVars, thinkVars, hitVars,
               removeVars, regVars, depotVars, heldVars>>

\* the record of a VIP operation on the present list
VipCall(op, vipGuid, ok) ==
    [op |-> op, guid |-> vipGuid, ok |-> ok, size |-> Cardinality(VIPList),
     listed |-> vipGuid \in VIPList]

\* addVIP(vipGuid, vipName, status)
PlayerAddVIP ==
    \E vipGuid \in VipGuids :
        LET ok == ~vipFull /\ vipGuid \notin VIPList IN
        /\ online
        /\ VIPList' = IF ok THEN VIPList \cup {vipGuid} ELSE VIPList
        /\ vipStored' = IF ok THEN [op |-> "addVIPEntry", guid |-> vipGuid]
                         ELSE NoEntry
        /\ buddy' = VipCall("addVIP", vipGuid, ok)
        /\ UNCHANGED <<besideVip, maxVipEntries>>

\* addVIPInternal(vipGuid)
PlayerAddVIPInternal ==
    \E vipGuid \in VipGuids :
        LET ok == ~vipFull /\ vipGuid \notin VIPList IN
        /\ online
        /\ VIPList' = IF ok THEN VIPList \cup {vipGuid} ELSE VIPList
        /\ vipStored' = NoEntry
        /\ buddy' = VipCall("addVIPInternal", vipGuid, ok)
        /\ UNCHANGED <<besideVip, maxVipEntries>>

\* removeVIP(vipGuid), of the last guid of the list or of one outside it
PlayerRemoveVIP ==
    \E vipGuid \in VipGuids \ (1..(Cardinality(VIPList) - 1)) :
        LET ok == vipGuid \in VIPList IN
        /\ online
        /\ VIPList' = VIPList \ {vipGuid}
        /\ vipStored' = IF ok THEN [op |-> "removeVIPEntry", guid |-> vipGuid]
                         ELSE NoEntry
        /\ buddy' = VipCall("removeVIP", vipGuid, ok)
        /\ UNCHANGED <<besideVip, maxVipEntries>>

\* a player of any group, with a premium account or without, whose list is
\* empty
InitVip ==
    /\ InventoryAtRest
    /\ playerFlags = {}
    /\ ProgressionAtRest
    /\ SchedulerAtRest
    /\ ThinkAtRest
    /\ HitAtRest
    /\ RemovalAtRest
    /\ storageMap = [k \in {} |-> 0]
    /\ outfits = <<>>
    /\ familiars = <<>>
    /\ store = NoStore
    /\ wardrobe = NoWardrobe
    /\ lookMount = 0
    /\ speed = BaseSpeed
    /\ lastToggleMount = 0
    /\ wasMounted = FALSE
    /\ premium \in BOOLEAN
    /\ outfitCondition = FALSE
    /\ ride = NoRide
    /\ VIPList = {}
    /\ vipStored = NoEntry
    /\ maxVipEntries \in GroupMaxima
    /\ buddy = NoBuddy
    /\ DepotAtRest
    /\ HeldAtRest

NextVip ==
    \/ PlayerAddVIP
    \/ PlayerAddVIPInternal
    \/ PlayerRemoveVIP

SpecVip == InitVip /\ [][NextVip]_vars

\* the most entries the list of the player may hold
VipLimit ==
    LET most == IF maxVipEntries # 0 THEN maxVipEntries
                ELSE IF premium THEN 100 ELSE 20
    IN  IF most < 200 THEN most ELSE 200

\* C29: after any sequence of addVIP, addVIPInternal and removeVIP starting
\* from an empty list, the VIP list size never exceeds
\* min(getMaxVIPEntries(), 200), where getMaxVIPEntries is the group maximum
\* when non-zero and otherwise 100 for premium and 20 for non-premium
\* players; a rejected add (list full or guid already present) leaves the
\* list unchanged and writes no VIP entry to persistence.
C29_VipListBounded ==
    /\ Cardinality(VIPList) <= VipLimit
    /\ buddy.op \in {"addVIP", "addVIPInternal"} =>
          /\ ~buddy.ok <=> (buddy.size >= VipLimit \/ buddy.listed)
          /\ ~buddy.ok =>
                /\ Cardinality(VIPList) = buddy.size
                /\ (buddy.guid \in VIPList) = buddy.listed
                /\ vipStored = NoEntry
          /\ buddy.op = "addVIPInternal" => vipStored = NoEntry
          /\ buddy.ok =>
                /\ Cardinality(VIPList) = buddy.size + 1
                /\ buddy.guid \in VIPList

\* the 201st player is refused by a list of 200 in a group of 300 entries
C29_Witness ==
    /\ maxVipEntries = 300
    /\ buddy.op = "addVIP"
    /\ ~buddy.ok
    /\ buddy.guid = 201
    /\ Cardinality(VIPList) = 200
    /\ vipStored = NoEntry

-----------------------------------------------------------------------------
(* The depot: getDepotChest and getDepotLocker *)

\* the most depot boxes the configuration asks for, and the depots of the map
MaxDepotBoxes == 2
DepotIds == 1..3

\* the things of a depot: the one inbox of the player, the depot chests of
\* depotChests, and the market, the supply stash and the depot chest root
\* made for one locker
Inbox == <<"inbox", 0>>
DepotBox(i) == <<"box", i>>
Market(depotId) == <<"market", depotId>>
SupplyStash(depotId) == <<"stash", depotId>>
DepotRoot(depotId) == <<"root", depotId>>
DepotLocker(depotId) == <<"locker", depotId>>
NoParent == <<"none", 0>>

\* Container::internalAddThing: the thing goes to the front of the item list
\* of the container, which becomes its parent
internalAddThing(itemlist, thing) == <<thing>> \o itemlist

\* setParent on the things a function of parents names
setParent(parents, things, parent) ==
    [t \in DOMAIN parents \cup things |->
        IF t \in things THEN parent ELSE parents[t]]

\* getDepotChest(depotId, autoCreate): the chests after the call
getDepotChest(chests, depotId, autoCreate) ==
    IF depotId \in chests \/ ~autoCreate THEN chests ELSE chests \cup {depotId}

\* the item list of the depot chest root of a new locker: the boxes from the
\* last to the first, each to the front
RECURSIVE rootOfBoxes(_)
rootOfBoxes(i) ==
    IF i = 0 THEN <<>>
    ELSE rootOfBoxes(i - 1) \o <<DepotBox(i)>>

\* the new locker of getDepotLocker: the market, the inbox, the supply
\* stash and the depot chest root with its boxes
newLocker(depotId, boxes) ==
    [itemlist |->
        internalAddThing(
            internalAddThing(
                internalAddThing(
                    internalAddThing(<<>>, Market(depotId)),
                    Inbox),
                SupplyStash(depotId)),
            DepotRoot(depotId)),
     root |-> rootOfBoxes(boxes)]

\* a getDepotLocker that leaves the parents alone when the locker is there
getDepotLockerAsFound(map, chests, parents, depotId, boxes) ==
    IF depotId \in DOMAIN map
    THEN [map |-> map, chests |-> chests, parents |-> parents]
    ELSE [map |-> [d \in DOMAIN map \cup {depotId} |->
                      IF d = depotId THEN newLocker(depotId, boxes)
                      ELSE map[d]],
          chests |-> chests \cup (1..boxes),
          parents |->
              setParent(setParent(parents, {Inbox}, DepotLocker(depotId)),
                        {DepotBox(i) : i \in 1..boxes}, DepotRoot(depotId))]

\* getDepotLocker(depotId) with DEPOT_BOXES boxes: the map of the lockers,
\* the depot chests and the parents after the call
getDepotLocker(map, chests, parents, depotId, boxes) ==
    IF depotId \in DOMAIN map
    THEN [map |-> map,
          chests |-> chests,
          parents |->
              setParent(setParent(parents, {Inbox}, DepotLocker(depotId)),
                        {DepotBox(i) : i \in (1..boxes) \cap chests},
                        Head(map[depotId].itemlist))]
    ELSE [map |-> [d \in DOMAIN map \cup {depotId} |->
                      IF d = depotId THEN newLocker(depotId, boxes)
                      ELSE map[d]],
          chests |-> chests \cup (1..boxes),
          parents |->
              setParent(setParent(parents, {Inbox}, DepotLocker(depotId)),
                        {DepotBox(i) : i \in 1..boxes}, DepotRoot(depotId))]

\* the variables but those of the depot
besideDepot == <<invVars, destVars, progVars, schedVars, thinkVars, hitVars,
                 removeVars, regVars, vipVars, heldVars>>

\* getDepotChest(depotId, autoCreate) from a caller other than getDepotLocker
PlayerGetDepotChest ==
    \E depotId \in 1..(MaxDepotBoxes + 1), autoCreate \in BOOLEAN :
        /\ online
        /\ depotChests' = getDepotChest(depotChests, depotId, autoCreate)
        /\ parentOf' = [t \in DOMAIN parentOf \cup
                               {DepotBox(i) : i \in depotChests'} |->
                           IF t \in DOMAIN parentOf THEN parentOf[t]
                           ELSE NoParent]
        /\ UNCHANGED <<besideDepot, depotBoxes, depotLockerMap, locker>>

\* getDepotLocker(depotId)
PlayerGetDepotLocker ==
    \E depotId \in DepotIds :
        LET after == getDepotLocker(depotLockerMap, depotChests, parentOf,
                                    depotId, depotBoxes)
        IN  /\ online
            /\ depotLockerMap' = after.map
            /\ depotChests' = after.chests
            /\ parentOf' = after.parents
            /\ locker' = [op |-> "getDepotLocker", depotId |-> depotId,
                          created |-> depotId \notin DOMAIN depotLockerMap]
            /\ UNCHANGED <<besideDepot, depotBoxes>>

\* a player without a locker, under any number of depot boxes
InitDepot ==
    /\ InventoryAtRest
    /\ playerFlags = {}
    /\ ProgressionAtRest
    /\ SchedulerAtRest
    /\ ThinkAtRest
    /\ HitAtRest
    /\ RemovalAtRest
    /\ RegistryAtRest
    /\ VipAtRest
    /\ HeldAtRest
    /\ depotBoxes \in 1..MaxDepotBoxes
    /\ depotLockerMap = [d \in {} |-> 0]
    /\ depotChests = {}
    /\ parentOf = [t \in {Inbox} |-> NoParent]
    /\ locker = NoLocker

NextDepot ==
    \/ PlayerGetDepotChest
    \/ PlayerGetDepotLocker

SpecDepot == InitDepot /\ [][NextDepot]_vars

\* how often a thing is in an item list
Occurrences(itemlist, thing) ==
    Cardinality({k \in 1..Len(itemlist) : itemlist[k] = thing})

\* the lockers with the inbox in the item list, the lockers with the box in
\* the item list of the depot chest root
LockersOfInbox ==
    {d \in DOMAIN depotLockerMap :
        Occurrences(depotLockerMap[d].itemlist, Inbox) > 0}
RootsOfBox(i) ==
    {d \in DOMAIN depotLockerMap :
        Occurrences(depotLockerMap[d].root, DepotBox(i)) > 0}

\* C30 as stated: after any sequence of getDepotLocker calls with any depot
\* ids, the shared inbox appears in the item list of at most one depot locker
\* and its parent is that locker; likewise each depot box is a child of
\* exactly one depot chest root.
C30_InboxInOneLocker ==
    locker.op = "getDepotLocker" =>
        /\ Cardinality(LockersOfInbox) <= 1
        /\ \A d \in LockersOfInbox : parentOf[Inbox] = DepotLocker(d)
        /\ \A i \in 1..depotBoxes : Cardinality(RootsOfBox(i)) = 1

\* C30: after any sequence of getDepotLocker calls with any depot ids, the
\* shared inbox is once in the item list of every depot locker made so far
\* and its parent is the one locker of the last call; likewise each depot box
\* is once in the depot chest root of every locker and its parent is the
\* depot chest root of the locker of the last call.
C30_InboxInEveryLocker ==
    locker.op = "getDepotLocker" =>
        /\ locker.depotId \in DOMAIN depotLockerMap
        /\ \A d \in DOMAIN depotLockerMap :
              /\ depotLockerMap[d].itemlist =
                    <<DepotRoot(d), SupplyStash(d), Inbox, Market(d)>>
              /\ Occurrences(depotLockerMap[d].itemlist, Inbox) = 1
              /\ Len(depotLockerMap[d].root) = depotBoxes
              /\ \A i \in 1..depotBoxes :
                    Occurrences(depotLockerMap[d].root, DepotBox(i)) = 1
        /\ parentOf[Inbox] = DepotLocker(locker.depotId)
        /\ \A i \in 1..depotBoxes :
              /\ i \in depotChests
              /\ parentOf[DepotBox(i)] = DepotRoot(locker.depotId)

\* three lockers hold the inbox and the first one, found again, is its parent
C30_Witness ==
    /\ locker.op = "getDepotLocker"
    /\ ~locker.created
    /\ locker.depotId = 1
    /\ Cardinality(LockersOfInbox) = 3
    /\ parentOf[Inbox] = DepotLocker(1)
    /\ Cardinality(RootsOfBox(depotBoxes)) = 3
    /\ parentOf[DepotBox(depotBoxes)] = DepotRoot(1)

-----------------------------------------------------------------------------
(* The rewards: getRewardChest, getReward, removeReward *)

\* the reward ids of the calls and the most Reward containers made in a run
RewardIds == 1..3
MaxRewards == 4

\* the variables but those of the rewards
besideRewards == <<invVars, destVars, progVars, schedVars, thinkVars, hitVars,
                   removeVars, regVars, ownVars, refVars, openVars, tradeVars,
                   lateVars>>

\* getRewardChest(): the chest is made at the first call
getRewardChest == TRUE

\* new Reward(), incrementReferenceCounter(), setIntAttr(DATE, rewardId) and
\* g_game.internalAddItem(getRewardChest(), reward, INDEX_WHEREEVER,
\* FLAG_NOLIMIT)
newReward(rewardId) ==
    [date |-> rewardId, referenceCounter |-> 1, parent |-> "rewardChest"]

\* getReward(rewardId, autoCreate): the rewards, the map and the chest after
\* the call
getReward(made, map, chest, rewardId, autoCreate) ==
    IF rewardId \in DOMAIN map \/ ~autoCreate
    THEN [rewards |-> made, rewardMap |-> map, rewardChest |-> chest]
    ELSE [rewards |-> Append(made, newReward(rewardId)),
          rewardMap |-> [r \in DOMAIN map \cup {rewardId} |->
                            IF r = rewardId THEN Len(made) + 1 ELSE map[r]],
          rewardChest |-> getRewardChest]

\* removeReward(rewardId): rewardMap.erase(rewardId)
removeReward(map, rewardId) ==
    [r \in DOMAIN map \ {rewardId} |-> map[r]]

\* getReward(rewardId, autoCreate)
PlayerGetReward ==
    \E rewardId \in RewardIds, autoCreate \in BOOLEAN :
        LET after == getReward(rewards, rewardMap, rewardChest, rewardId,
                               autoCreate)
        IN  /\ online
            /\ Len(after.rewards) <= MaxRewards
            /\ rewards' = after.rewards
            /\ rewardMap' = after.rewardMap
            /\ rewardChest' = after.rewardChest
            /\ bounty' = [op |-> "getReward", rewardId |-> rewardId,
                          autoCreate |-> autoCreate,
                          found |-> rewardId \in DOMAIN rewardMap,
                          made |-> Len(after.rewards) - Len(rewards)]
            /\ UNCHANGED besideRewards

\* removeReward(rewardId)
PlayerRemoveReward ==
    \E rewardId \in RewardIds :
        /\ online
        /\ rewardMap' = removeReward(rewardMap, rewardId)
        /\ bounty' = [op |-> "removeReward", rewardId |-> rewardId,
                      autoCreate |-> FALSE,
                      found |-> rewardId \in DOMAIN rewardMap,
                      made |-> 0]
        /\ UNCHANGED <<besideRewards, rewardChest, rewards>>

\* a player without a reward
InitReward ==
    /\ InventoryAtRest
    /\ playerFlags = {}
    /\ ProgressionAtRest
    /\ SchedulerAtRest
    /\ ThinkAtRest
    /\ HitAtRest
    /\ AccountAtRest

NextReward ==
    \/ PlayerGetReward
    \/ PlayerRemoveReward

SpecReward == InitReward /\ [][NextReward]_vars

\* the references the player holds on Reward containers
RECURSIVE RewardReferences(_)
RewardReferences(n) ==
    IF n = 0 THEN 0
    ELSE rewards[n].referenceCounter + RewardReferences(n - 1)

\* C31: after any sequence of getReward(id, autoCreate) and removeReward(id)
\* the number of references the player holds on reward containers equals the
\* number of reward-map entries, every reward-map entry's container is a
\* child of the reward chest, and a repeated getReward for an existing id
\* creates and inserts nothing.
C31_RewardReferences ==
    /\ RewardReferences(Len(rewards)) = Cardinality(DOMAIN rewardMap)
    /\ \A r \in DOMAIN rewardMap :
          /\ rewardChest
          /\ rewards[rewardMap[r]].parent = "rewardChest"
          /\ rewards[rewardMap[r]].date = r
    /\ (bounty.op = "getReward" /\ bounty.found) => bounty.made = 0

\* a reward was made and its entry removed: the map is empty and the
\* reference is still held
C31_Witness ==
    /\ bounty.op = "removeReward"
    /\ bounty.found
    /\ DOMAIN rewardMap = {}
    /\ RewardReferences(Len(rewards)) = 1

-----------------------------------------------------------------------------
(* The references the player holds on items: setLootContainer, setWriteItem,
   inImbuing, addContainer, closeContainer. windowTextId and maxWriteLen,
   which setWriteItem sets too, are not followed. *)

\* the loot categories and the client ids of the calls; 16 is above 0xF
LootCategories == {1, 2}
ClientIds == {0, 16}
BrowseField == "field"

\* the variables but those of the held references
besideRefs == <<invVars, destVars, progVars, schedVars, thinkVars, hitVars,
                removeVars, regVars, ownVars, rewardVars, openVars, tradeVars,
                lateVars>>

\* decrementReferenceCounter() on old, then incrementReferenceCounter() on
\* new, each on an item only: the counters after the call and the counter
\* of new between the two
releaseThenTake(counters, old, new) ==
    LET released == IF old = NoItem THEN counters
                    ELSE [counters EXCEPT ![old] = @ - 1]
    IN  [referenceCounter |-> IF new = NoItem THEN released
                              ELSE [released EXCEPT ![new] = @ + 1],
         between |-> IF new = NoItem THEN 1 ELSE released[new]]

\* incrementReferenceCounter() on new, then decrementReferenceCounter() on
\* old: the counters after the call and the lowest counter of new in it
takeThenRelease(counters, old, new) ==
    LET taken == IF new = NoItem THEN counters
                 ELSE [counters EXCEPT ![new] = @ + 1]
        after == IF old = NoItem THEN taken
                 ELSE [taken EXCEPT ![old] = @ - 1]
    IN  [referenceCounter |-> after,
         between |-> IF new = NoItem THEN 1 ELSE after[new]]

\* the item was deleted by the release and is bound again: the counter of
\* the deleted item reads as any of the values the freed memory may give
Reused(old, new, after) ==
    old # NoItem /\ old = new /\ after.between = 0

\* the record of an operation on a held reference
SwapCall(op, old, new, after) ==
    [op |-> op, old |-> old, new |-> new, between |-> after.between]

\* the counters and the freed items after an operation
Counted(old, new, after) ==
    /\ freedItems' = IF Reused(old, new, after) THEN freedItems \cup {new}
                     ELSE freedItems
    /\ IF Reused(old, new, after)
       THEN \E read \in {0, 1} :
               referenceCounter' =
                   [after.referenceCounter EXCEPT ![new] = read]
       ELSE referenceCounter' = after.referenceCounter

\* setLootContainer(category, container, loading); the containers are loaded
\* at login, into categories that have none yet
PlayerSetLootContainer ==
    \E category \in LootCategories, container \in {NoItem, "bag", "pack"},
       loading \in BOOLEAN :
        LET bound == category \in DOMAIN quickLootContainers
            old == IF bound /\ ~loading THEN quickLootContainers[category]
                   ELSE NoItem
            after == releaseThenTake(referenceCounter, old, container)
            cleared == IF old = NoItem THEN quickLootFlags
                       ELSE [quickLootFlags EXCEPT ![old] = @ \ {category}]
        IN  /\ online
            /\ freedItems = {}
            /\ loading => ~bound
            /\ quickLootContainers' =
                  [c \in (DOMAIN quickLootContainers \ {category}) \cup
                         (IF container = NoItem THEN {} ELSE {category}) |->
                      IF c = category THEN container
                      ELSE quickLootContainers[c]]
            /\ quickLootFlags' =
                  IF container # NoItem /\ ~loading
                  THEN [cleared EXCEPT ![container] = @ \cup {category}]
                  ELSE cleared
            /\ Counted(old, container, after)
            /\ swap' = SwapCall("setLootContainer", old, container, after)
            /\ UNCHANGED <<besideRefs, writeItem, imbuing, openContainers,
                           worldRefs>>

\* inImbuing(item)
PlayerInImbuing ==
    \E item \in {NoItem, "bag", "pack"} :
        LET after == releaseThenTake(referenceCounter, imbuing, item) IN
        /\ online
        /\ freedItems = {}
        /\ imbuing' = item
        /\ Counted(imbuing, item, after)
        /\ swap' = SwapCall("inImbuing", imbuing, item, after)
        /\ UNCHANGED <<besideRefs, quickLootContainers, quickLootFlags,
                       writeItem, openContainers, worldRefs>>

\* setWriteItem(item, maxWriteLength)
PlayerSetWriteItem ==
    \E item \in {NoItem, "bag", "pack"} :
        LET after == releaseThenTake(referenceCounter, writeItem, item) IN
        /\ online
        /\ freedItems = {}
        /\ writeItem' = item
        /\ Counted(writeItem, item, after)
        /\ swap' = SwapCall("setWriteItem", writeItem, item, after)
        /\ UNCHANGED <<besideRefs, quickLootContainers, quickLootFlags,
                       imbuing, openContainers, worldRefs>>

\* the container as far as addContainer and closeContainer count it
Browsed(container) == IF container = BrowseField THEN container ELSE NoItem

\* addContainer(cid, container)
PlayerAddContainer ==
    \E cid \in ClientIds, container \in {NoItem, "bag", BrowseField} :
        LET does == cid <= 15 /\ container # NoItem
            old == IF does /\ cid \in DOMAIN openContainers
                   THEN Browsed(openContainers[cid]) ELSE NoItem
            new == IF does THEN Browsed(container) ELSE NoItem
            after == takeThenRelease(referenceCounter, old, new)
        IN  /\ online
            /\ freedItems = {}
            /\ openContainers' =
                  IF does
                  THEN [c \in DOMAIN openContainers \cup {cid} |->
                           IF c = cid THEN container ELSE openContainers[c]]
                  ELSE openContainers
            /\ Counted(old, new, after)
            /\ swap' = SwapCall("addContainer", old, new, after)
            /\ UNCHANGED <<besideRefs, quickLootContainers, quickLootFlags,
                           writeItem, imbuing, worldRefs>>

\* closeContainer(cid)
PlayerCloseContainer ==
    \E cid \in ClientIds :
        LET open == cid \in DOMAIN openContainers
            old == IF open THEN Browsed(openContainers[cid]) ELSE NoItem
            after == releaseThenTake(referenceCounter, old, NoItem)
        IN  /\ online
            /\ freedItems = {}
            /\ openContainers' =
                  [c \in DOMAIN openContainers \ {cid} |-> openContainers[c]]
            /\ referenceCounter' = after.referenceCounter
            /\ swap' = SwapCall("closeContainer", old, NoItem, after)
            /\ UNCHANGED <<besideRefs, quickLootContainers, quickLootFlags,
                           writeItem, imbuing, worldRefs, freedItems>>

\* the bindings of the player to an item that hold a reference
Bindings(item) ==
    Cardinality({c \in DOMAIN quickLootContainers :
                    quickLootContainers[c] = item})
    + (IF writeItem = item THEN 1 ELSE 0)
    + (IF imbuing = item THEN 1 ELSE 0)
    + Cardinality({c \in DOMAIN openContainers :
                      Browsed(openContainers[c]) = item})

\* the game releases an item the player is bound to: the item has left the
\* world and lives on the references of the player
ItemLeavesWorld ==
    \E item \in {"bag", "pack"} :
        /\ online
        /\ freedItems = {}
        /\ worldRefs[item] = 1
        /\ Bindings(item) > 0
        /\ worldRefs' = [worldRefs EXCEPT ![item] = 0]
        /\ referenceCounter' = [referenceCounter EXCEPT ![item] = @ - 1]
        /\ swap' = SwapCall("ReleaseItem", item, NoItem, [between |-> 1])
        /\ UNCHANGED <<besideRefs, quickLootContainers, quickLootFlags,
                       writeItem, imbuing, openContainers, freedItems>>

\* a player bound to no item
InitRefs ==
    /\ InventoryAtRest
    /\ playerFlags = {}
    /\ ProgressionAtRest
    /\ SchedulerAtRest
    /\ ThinkAtRest
    /\ HitAtRest
    /\ AccountAtRest

NextRefs ==
    \/ PlayerSetLootContainer
    \/ PlayerInImbuing
    \/ PlayerSetWriteItem
    \/ PlayerAddContainer
    \/ PlayerCloseContainer
    \/ ItemLeavesWorld

SpecRefs == InitRefs /\ [][NextRefs]_vars

\* C32: whenever a player-held item reference is swapped (setLootContainer
\* for a category, setWriteItem, inImbuing, addContainer on an occupied
\* client id), the reference on the new item is taken before the reference
\* on the old item is released, so re-binding the item that is already bound
\* never drives its reference count to zero in between, and after the swap
\* the count of player-held references on each item equals the number of
\* bindings to it.
C32_TakenBeforeReleased ==
    swap.op \in {"setLootContainer", "setWriteItem", "inImbuing",
                 "addContainer"} =>
        /\ (swap.new # NoItem /\ swap.new = swap.old) => swap.between > 0
        /\ \A item \in HeldItems :
              referenceCounter[item] - worldRefs[item] = Bindings(item)

\* the item written, which had left the world, was bound again: its counter
\* was zero between the release and the new reference
C32_Witness ==
    /\ swap.op = "setWriteItem"
    /\ swap.old = "bag"
    /\ swap.new = "bag"
    /\ swap.between = 0
    /\ worldRefs["bag"] = 0
    /\ "bag" \in freedItems

-----------------------------------------------------------------------------
(* The open containers: postRemoveNotification, autoCloseContainers. The
   containers followed are not in a depot. *)

\* the client ids of the open containers and the places a container may be
OpenIds == {0, 1, 2}
Places == {"player", "near", "far"}

\* the variables but the open containers and their places
besideOpen == <<invVars, destVars, progVars, schedVars, thinkVars, hitVars,
                removeVars, regVars, ownVars, rewardVars, quickLootContainers,
                quickLootFlags, writeItem, imbuing, worldRefs, freedItems, swap,
                tradeVars, lateVars>>

\* Item::isRemoved: the container has no parent or its parent is removed
RECURSIVE isRemoved(_, _)
isRemoved(at, container) ==
    IF at[container] = NoItem THEN TRUE
    ELSE IF at[container] \in OpenItems THEN isRemoved(at, at[container])
    ELSE FALSE

\* where the container is, through the containers it is in
RECURSIVE topPlace(_, _)
topPlace(at, container) ==
    IF at[container] \in OpenItems THEN topPlace(at, at[container])
    ELSE at[container]

\* Position::areInRange<1, 1, 0>(getPosition(), container->getPosition())
inRange(at, container) == topPlace(at, container) \in {"player", "near"}

\* the container is root or is nested in it
RECURSIVE Within(_, _, _)
Within(at, container, root) ==
    \/ container = root
    \/ /\ at[container] \in OpenItems
       /\ Within(at, at[container], root)

\* an autoCloseContainers that looks at the open container alone
closeListOfItself(open, at, container) ==
    {cid \in DOMAIN open :
        isRemoved(at, open[cid]) \/ open[cid] = container}

\* the loop over the parents in autoCloseContainers
RECURSIVE closes(_, _, _)
closes(at, tmpContainer, container) ==
    IF isRemoved(at, tmpContainer) \/ tmpContainer = container THEN TRUE
    ELSE IF at[tmpContainer] \in OpenItems
         THEN closes(at, at[tmpContainer], container)
    ELSE FALSE

\* closeList of autoCloseContainers(container)
closeList(open, at, container) ==
    {cid \in DOMAIN open : closes(at, open[cid], container)}

\* the branch of postRemoveNotification for a container: whether it calls
\* autoCloseContainers
autoCloses(at, container) ==
    IF isRemoved(at, container) \/ ~inRange(at, container) THEN TRUE
    ELSE IF topPlace(at, container) = "player" THEN FALSE
    ELSE IF topPlace(at, container) = "near" THEN FALSE
    ELSE TRUE

\* the references the closed client ids held on the browsed field
RECURSIVE closeAll(_, _, _)
closeAll(counters, open, cids) ==
    IF cids = {} THEN counters
    ELSE LET cid == CHOOSE c \in cids : TRUE
             old == Browsed(open[cid])
         IN  closeAll(releaseThenTake(counters, old, NoItem).referenceCounter,
                      open, cids \ {cid})

\* postRemoveNotification(thing, newParent, index, link) for a container the
\* player could reach, which has been removed or moved to newParent
PlayerPostRemoveNotification ==
    \E thing \in OpenItems,
       newParent \in {NoItem} \cup Places \cup (OpenItems \ {BrowseField}) :
        LET at == [places EXCEPT ![thing] = newParent]
            cids == IF autoCloses(at, thing)
                    THEN closeList(openContainers, at, thing) ELSE {}
        IN  /\ online
            /\ ~isRemoved(places, thing)
            /\ inRange(places, thing)
            /\ newParent # places[thing]
            /\ thing = BrowseField => newParent = NoItem
            /\ newParent \in OpenItems => ~Within(places, newParent, thing)
            /\ places' = at
            /\ openContainers' =
                  [c \in DOMAIN openContainers \ cids |-> openContainers[c]]
            /\ referenceCounter' =
                  closeAll(referenceCounter, openContainers, cids)
            /\ notice' = [op |-> "postRemoveNotification", thing |-> thing,
                          newParent |-> newParent,
                          closing |-> autoCloses(at, thing),
                          before |-> openContainers,
                          sent |-> IF client THEN cids ELSE {}]
            /\ UNCHANGED besideOpen

\* the containers laid out around the player, the bag held or next to the
\* player, and any of them open
OpenLayouts ==
    {at \in [OpenItems -> Places \cup OpenItems] :
        /\ at["bag"] \in {"player", "near"}
        /\ at["pack"] \in {"bag", "near", "player"}
        /\ at["pouch"] \in {"pack", "bag", "near"}
        /\ at[BrowseField] = "near"}

InitOpen ==
    /\ InventoryAtRest
    /\ playerFlags = {}
    /\ ProgressionAtRest
    /\ SchedulerAtRest
    /\ ThinkAtRest
    /\ HitAtRest
    /\ RemovalAtRest
    /\ RegistryAtRest
    /\ OwnedAtRest
    /\ RewardAtRest
    /\ quickLootContainers = [c \in {} |-> NoItem]
    /\ quickLootFlags = [i \in HeldItems |-> {}]
    /\ writeItem = NoItem
    /\ imbuing = NoItem
    /\ \E ids \in SUBSET OpenIds : openContainers \in [ids -> OpenItems]
    /\ referenceCounter =
          [WorldRefsAtStart EXCEPT ![BrowseField] =
              Cardinality({c \in DOMAIN openContainers :
                              openContainers[c] = BrowseField})]
    /\ worldRefs = WorldRefsAtStart
    /\ freedItems = {}
    /\ swap = NoSwap
    /\ places \in OpenLayouts
    /\ notice = NoNotice
    /\ TradeAtRest
    /\ LateAtRest

NextOpen == PlayerPostRemoveNotification

SpecOpen == InitOpen /\ [][NextOpen]_vars

\* the client ids open, before the notification, on the container of the
\* notification or on a container nested inside it
OpenWithin ==
    {cid \in DOMAIN notice.before :
        Within(places, notice.before[cid], notice.thing)}

\* C33: when postRemoveNotification reports a container that is removed or
\* no longer within one step of the player, every open-container entry whose
\* container is that container or is nested inside it is erased from the
\* open-container map and the client receives sendCloseContainer for exactly
\* those client ids; open containers outside that subtree stay open.
C33_SubtreeClosed ==
    (notice.op = "postRemoveNotification" /\ notice.closing) =>
        /\ DOMAIN openContainers = DOMAIN notice.before \ OpenWithin
        /\ \A cid \in DOMAIN openContainers :
              openContainers[cid] = notice.before[cid]
        /\ client => notice.sent = OpenWithin

\* the bag goes out of reach with the pack in it: both are closed and the
\* field stays open
C33_Witness ==
    /\ notice.op = "postRemoveNotification"
    /\ notice.closing
    /\ notice.thing = "bag"
    /\ notice.newParent = "far"
    /\ places["pack"] = "bag"
    /\ notice.before = (0 :> "pack" @@ 1 :> BrowseField @@ 2 :> "bag")
    /\ notice.sent = {0, 2}
    /\ DOMAIN openContainers = {1}

-----------------------------------------------------------------------------
(* The trade and the items that leave: checkTradeState, onUpdateContainerItem,
   onRemoveContainerItem, onUpdateInventoryItem, onRemoveInventoryItem. The
   notification of a removal comes before the item is taken out. *)

TradeStates == {"TRADE_NONE", "TRADE_INITIATED", "TRADE_ACCEPT",
                "TRADE_ACKNOWLEDGE", "TRADE_TRANSFER"}

\* the items of the notifications: the containers but the browsed field
TradeItems == OpenItems \ {BrowseField}

\* the item an update puts in the place of another
OtherItem == "other"

\* the variables but those of the trade and the places of the items
besideTrade == <<invVars, contents, dest, progVars, schedVars, thinkVars, hitVars,
                 position, loginPosition, saveAttempts, saveWarnings, removal,
                 party, guild, regVars, ownVars, rewardVars, refVars, notice,
                 lateVars>>

\* Container::isHoldingItem: the item is in the container, at any depth
isHoldingItem(at, container, item) ==
    /\ item # container
    /\ Within(at, item, container)

\* a checkTradeState that looks at the item alone
checkTradeStateOfItself(at, trade, state, item) ==
    /\ trade # NoItem
    /\ state # "TRADE_TRANSFER"
    /\ trade = item

\* checkTradeState(item): whether it calls g_game.internalCloseTrade
checkTradeState(at, trade, state, item) ==
    /\ trade # NoItem
    /\ state # "TRADE_TRANSFER"
    /\ \/ trade = item
       \/ /\ at[item] \in OpenItems
          /\ Within(at, at[item], trade)

\* onRemoveContainerItem(container, item): whether the trade is closed
onRemoveContainerItem(at, trade, state, container, item) ==
    /\ state # "TRADE_TRANSFER"
    /\ \/ checkTradeState(at, trade, state, item)
       \/ /\ trade # NoItem
          /\ at[trade] # container
          /\ isHoldingItem(at, container, trade)

\* onUpdateContainerItem(container, oldItem, newItem)
onUpdateContainerItem(at, trade, state, container, oldItem, newItem) ==
    \/ /\ oldItem # newItem
       /\ onRemoveContainerItem(at, trade, state, container, oldItem)
    \/ /\ state # "TRADE_TRANSFER"
       /\ checkTradeState(at, trade, state, oldItem)

\* onRemoveInventoryItem(item); every item followed is a container
onRemoveInventoryItem(at, trade, state, item) ==
    /\ state # "TRADE_TRANSFER"
    /\ \/ checkTradeState(at, trade, state, item)
       \/ /\ trade # NoItem
          /\ isHoldingItem(at, item, trade)

\* onUpdateInventoryItem(oldItem, newItem)
onUpdateInventoryItem(at, trade, state, oldItem, newItem) ==
    \/ /\ oldItem # newItem
       /\ onRemoveInventoryItem(at, trade, state, oldItem)
    \/ /\ state # "TRADE_TRANSFER"
       /\ checkTradeState(at, trade, state, oldItem)

\* the notification, then g_game.internalCloseTrade if it was called, then
\* the item leaves when it was removed or replaced
Notified(op, item, newItem, closed) ==
    /\ online
    /\ deal' = [op |-> op, item |-> item, replaced |-> item # newItem,
                closed |-> closed, at |-> places, tradeItem |-> tradeItem,
                tradeState |-> tradeState]
    /\ tradeItem' = IF closed THEN NoItem ELSE tradeItem
    /\ tradeState' = IF closed THEN "TRADE_NONE" ELSE tradeState
    /\ tradePartner' = IF closed THEN FALSE ELSE tradePartner
    /\ places' = IF item # newItem THEN [places EXCEPT ![item] = NoItem]
                 ELSE places
    /\ UNCHANGED besideTrade

PlayerOnRemoveContainerItem ==
    \E item \in TradeItems :
        /\ places[item] \in OpenItems
        /\ Notified("onRemoveContainerItem", item, NoItem,
                    onRemoveContainerItem(places, tradeItem, tradeState,
                                          places[item], item))

PlayerOnUpdateContainerItem ==
    \E oldItem \in TradeItems : \E newItem \in {oldItem, OtherItem} :
        /\ places[oldItem] \in OpenItems
        /\ Notified("onUpdateContainerItem", oldItem, newItem,
                    onUpdateContainerItem(places, tradeItem, tradeState,
                                          places[oldItem], oldItem, newItem))

PlayerOnRemoveInventoryItem ==
    \E item \in TradeItems :
        /\ places[item] = "player"
        /\ Notified("onRemoveInventoryItem", item, NoItem,
                    onRemoveInventoryItem(places, tradeItem, tradeState, item))

PlayerOnUpdateInventoryItem ==
    \E oldItem \in TradeItems : \E newItem \in {oldItem, OtherItem} :
        /\ places[oldItem] = "player"
        /\ Notified("onUpdateInventoryItem", oldItem, newItem,
                    onUpdateInventoryItem(places, tradeItem, tradeState,
                                          oldItem, newItem))

\* a player in any state of a trade, the trade item being one of the
\* containers in reach
InitTrade ==
    /\ classicSlots = FALSE
    /\ capacity = MaxCapacity
    /\ inventory = [s \in Slots |-> NoItem]
    /\ itemCount = InitialCounts
    /\ inventoryWeight = 0
    /\ q = NoQuery
    /\ contents = [c \in Containers |-> <<>>]
    /\ dest = NoDest
    /\ playerFlags = {}
    /\ ProgressionAtRest
    /\ SchedulerAtRest
    /\ ThinkAtRest
    /\ HitAtRest
    /\ party = FALSE
    /\ guild = FALSE
    /\ position = 1
    /\ loginPosition = 1
    /\ saveAttempts = <<>>
    /\ saveWarnings = 0
    /\ removal = NoRemoval
    /\ RegistryAtRest
    /\ OwnedAtRest
    /\ RewardAtRest
    /\ RefsAtRest
    /\ places \in OpenLayouts
    /\ notice = NoNotice
    /\ tradeState \in TradeStates
    /\ tradeItem \in IF tradeState = "TRADE_NONE" THEN {NoItem} ELSE TradeItems
    /\ tradePartner = (tradeItem # NoItem)
    /\ deal = NoDeal
    /\ LateAtRest

NextTrade ==
    \/ PlayerOnRemoveContainerItem
    \/ PlayerOnUpdateContainerItem
    \/ PlayerOnRemoveInventoryItem
    \/ PlayerOnUpdateInventoryItem

SpecTrade == InitTrade /\ [][NextTrade]_vars

\* the item of the last notification was the trade item, was inside it, or
\* held it
TradeItemTouched ==
    /\ deal.tradeItem # NoItem
    /\ \/ deal.item = deal.tradeItem
       \/ isHoldingItem(deal.at, deal.tradeItem, deal.item)
       \/ isHoldingItem(deal.at, deal.item, deal.tradeItem)

\* the same, an item that held the trade item counting only when it was
\* removed or replaced by another
TradeItemTaken ==
    /\ deal.tradeItem # NoItem
    /\ \/ deal.item = deal.tradeItem
       \/ isHoldingItem(deal.at, deal.tradeItem, deal.item)
       \/ /\ deal.replaced
          /\ isHoldingItem(deal.at, deal.item, deal.tradeItem)

\* C34 as stated: while tradeState is not TRADE_TRANSFER, every inventory or
\* container removal/update notification closes the trade when the affected
\* item is the trade item, is nested at any depth inside the trade item, or
\* is a container holding the trade item; while tradeState is TRADE_TRANSFER
\* no such notification closes the trade.
C34_TradeClosed ==
    deal.op # "none" =>
        /\ (deal.tradeState # "TRADE_TRANSFER" /\ TradeItemTouched)
              => deal.closed
        /\ deal.tradeState = "TRADE_TRANSFER" => ~deal.closed

\* C34: while tradeState is not TRADE_TRANSFER, every inventory or container
\* removal/update notification closes the trade when the affected item is
\* the trade item or is nested at any depth inside the trade item, and every
\* removal, and every update that puts another item in its place, closes the
\* trade when the affected item is a container holding the trade item; while
\* tradeState is TRADE_TRANSFER no such notification closes the trade.
C34_TradeClosedIfTaken ==
    deal.op # "none" =>
        /\ (deal.tradeState # "TRADE_TRANSFER" /\ TradeItemTaken)
              => /\ deal.closed
                 /\ tradeItem = NoItem
        /\ deal.tradeState = "TRADE_TRANSFER" =>
              /\ ~deal.closed
              /\ tradeItem = deal.tradeItem
              /\ tradeState = deal.tradeState

\* the pack is taken out of the bag with the trade item, the pouch, in it:
\* the trade is closed
C34_Witness ==
    /\ deal.op = "onRemoveContainerItem"
    /\ deal.item = "pack"
    /\ deal.tradeItem = "pouch"
    /\ deal.at["pouch"] = "pack"
    /\ deal.at["pack"] = "bag"
    /\ deal.tradeState = "TRADE_ACCEPT"
    /\ deal.closed
    /\ tradeItem = NoItem

-----------------------------------------------------------------------------
(* The weapon in hand: getWeapon(slot, ignoreAmmo), getWeapon(ignoreAmmo) and
   the attack doAttacking makes with it *)

\* the items of the hands and of the quiver, with the weapon type and the
\* ammo type of each; the spear is a distance weapon without ammunition
Armory ==
    [ bow     |-> [weaponType |-> "DISTANCE", ammoType |-> "ARROW"],
      spear   |-> [weaponType |-> "DISTANCE", ammoType |-> "NONE"],
      sword   |-> [weaponType |-> "SWORD", ammoType |-> "NONE"],
      shield  |-> [weaponType |-> "SHIELD", ammoType |-> "NONE"],
      quiver  |-> [weaponType |-> "QUIVER", ammoType |-> "NONE"],
      arrowsA |-> [weaponType |-> "AMMO", ammoType |-> "ARROW"],
      arrowsB |-> [weaponType |-> "AMMO", ammoType |-> "ARROW"],
      bolts   |-> [weaponType |-> "AMMO", ammoType |-> "BOLT"] ]

\* the items g_weapons knows a weapon for
Registered == {"bow", "spear", "sword", "arrowsA", "arrowsB", "bolts"}

\* the first item of the list with the ammo type, or NoItem
RECURSIVE firstAmmo(_, _)
firstAmmo(itemlist, ammoType) ==
    IF itemlist = <<>> THEN NoItem
    ELSE IF Armory[Head(itemlist)].ammoType = ammoType THEN Head(itemlist)
    ELSE firstAmmo(Tail(itemlist), ammoType)

\* a getWeapon(slot, ignoreAmmo) for which a quiver is no weapon
getWeaponNoQuiver(inv, lists, slot, ignoreAmmo) ==
    LET item == inv[slot] IN
    IF item = NoItem THEN NoItem
    ELSE IF Armory[item].weaponType \in {"NONE", "SHIELD", "AMMO", "QUIVER"}
         THEN NoItem
    ELSE IF ~ignoreAmmo /\ Armory[item].weaponType = "DISTANCE"
            /\ Armory[item].ammoType # "NONE"
         THEN LET quiver == inv["RIGHT"] IN
              IF quiver = NoItem THEN NoItem
              ELSE IF Armory[quiver].weaponType # "QUIVER" THEN NoItem
              ELSE firstAmmo(lists[quiver], Armory[item].ammoType)
    ELSE item

\* getWeapon(slot, ignoreAmmo)
getWeaponOf(inv, lists, slot, ignoreAmmo) ==
    LET item == inv[slot] IN
    IF item = NoItem THEN NoItem
    ELSE IF Armory[item].weaponType \in {"NONE", "SHIELD", "AMMO"} THEN NoItem
    ELSE IF ~ignoreAmmo /\ Armory[item].weaponType = "DISTANCE"
            /\ Armory[item].ammoType # "NONE"
         THEN LET quiver == inv["RIGHT"] IN
              IF quiver = NoItem THEN NoItem
              ELSE IF Armory[quiver].weaponType # "QUIVER" THEN NoItem
              ELSE firstAmmo(lists[quiver], Armory[item].ammoType)
    ELSE item

\* getWeapon(ignoreAmmo): the left hand, then the right
getWeapon(inv, lists, ignoreAmmo) ==
    LET left == getWeaponOf(inv, lists, "LEFT", ignoreAmmo) IN
    IF left # NoItem THEN left
    ELSE getWeaponOf(inv, lists, "RIGHT", ignoreAmmo)

\* the attack of doAttacking with the tool: the weapon g_weapons has for it,
\* or the fist
attackWith(tool) ==
    IF tool \in Registered THEN "useWeapon" ELSE "useFist"

\* the variables but the record of the weapon
besideArmed == <<invVars, destVars, progVars, schedVars, thinkVars, hitVars,
                 removeVars, regVars, ownVars, rewardVars, refVars, openVars,
                 tradeVars, wheelVars, trip, warning, skullTime>>

\* getWeapon(ignoreAmmo), as doAttacking calls it with ignoreAmmo false
PlayerGetWeapon ==
    \E ignoreAmmo \in BOOLEAN :
        LET tool == getWeapon(inventory, contents, ignoreAmmo) IN
        /\ online
        /\ armed' = [op |-> "getWeapon", ignoreAmmo |-> ignoreAmmo,
                     tool |-> tool, attack |-> attackWith(tool)]
        /\ UNCHANGED besideArmed

\* the hands of a player: a two-handed bow leaves the right hand to a quiver
Hands ==
    {h \in [{"LEFT", "RIGHT"} -> {NoItem, "bow", "spear", "sword", "shield",
                                  "quiver"}] :
        /\ h["LEFT"] # "quiver"
        /\ h["RIGHT"] \in {NoItem, "quiver", "shield"}
        /\ h["LEFT"] = "bow" => h["RIGHT"] \in {NoItem, "quiver"}}

\* the item lists a quiver may have: up to MaxQuiver of the three stacks
MaxQuiver == 2
Quivers ==
    {list \in UNION {[1..n -> {"arrowsA", "arrowsB", "bolts"}] :
                        n \in 0..MaxQuiver} :
        \A i, j \in DOMAIN list : i # j => list[i] # list[j]}

InitWeapon ==
    /\ classicSlots = FALSE
    /\ capacity = MaxCapacity
    /\ \E h \in Hands :
          inventory = [s \in Slots |-> IF s \in DOMAIN h THEN h[s] ELSE NoItem]
    /\ itemCount = InitialCounts
    /\ inventoryWeight = 0
    /\ q = NoQuery
    /\ \E list \in Quivers :
          contents = [c \in Containers |-> IF c = "quiver" THEN list ELSE <<>>]
    /\ tradeItem = NoItem
    /\ dest = NoDest
    /\ playerFlags = {}
    /\ ProgressionAtRest
    /\ SchedulerAtRest
    /\ ThinkAtRest
    /\ HitAtRest
    /\ AccountAtRest

NextWeapon == PlayerGetWeapon

SpecWeapon == InitWeapon /\ [][NextWeapon]_vars

\* the left hand holds a distance weapon that needs ammunition
NeedsAmmo ==
    /\ inventory["LEFT"] # NoItem
    /\ Armory[inventory["LEFT"]].weaponType = "DISTANCE"
    /\ Armory[inventory["LEFT"]].ammoType # "NONE"

\* the stacks of the quiver in the right hand that fit the weapon in the left
FittingAmmo ==
    IF inventory["RIGHT"] = NoItem THEN {}
    ELSE IF Armory[inventory["RIGHT"]].weaponType # "QUIVER" THEN {}
    ELSE LET list == contents[inventory["RIGHT"]] IN
         {i \in DOMAIN list :
             Armory[list[i]].ammoType = Armory[inventory["LEFT"]].ammoType}

\* C35: with a distance weapon that requires ammunition in the left slot,
\* getWeapon(ignoreAmmo=false) returns the first item of the right-slot
\* quiver whose ammo type matches the weapon, and returns nullptr when the
\* right slot holds no quiver or the quiver holds no matching ammo, so that
\* doAttacking then uses the fist attack.
C35_AmmoOfQuiver ==
    (armed.op = "getWeapon" /\ ~armed.ignoreAmmo /\ NeedsAmmo) =>
        IF FittingAmmo # {}
        THEN /\ armed.tool = contents[inventory["RIGHT"]]
                                [CHOOSE i \in FittingAmmo :
                                    \A j \in FittingAmmo : i <= j]
             /\ armed.attack = "useWeapon"
        ELSE /\ armed.tool = NoItem
             /\ armed.attack = "useFist"

\* a bow in the left hand and a quiver of bolts in the right: getWeapon
\* returns the quiver
C35_Witness ==
    /\ armed.op = "getWeapon"
    /\ ~armed.ignoreAmmo
    /\ inventory["LEFT"] = "bow"
    /\ inventory["RIGHT"] = "quiver"
    /\ contents["quiver"] = <<"bolts">>
    /\ armed.tool = "quiver"
    /\ armed.attack = "useFist"

-----------------------------------------------------------------------------
(* The wheel of destiny: checkWheelOfDestinyBattleInstinct *)

\* the tiles of the 3x3 neighbourhood, the one of the player among them, and
\* the most creatures the loop counts
NearbyTiles == 9
MaxNearby == 8
\* the time between two clock readings and the clock readings followed
WheelTick == 1000
WheelTicks == 5

\* the variables but those of the wheel
besideWheel == <<invVars, destVars, progVars, laneVars, classicSpeed, lastAttack,
                 nextAction, attack, thinkVars, hitVars, removeVars, regVars,
                 ownVars, rewardVars, refVars, openVars, tradeVars, armed, trip, warning,
                 skullTime>>

\* the creatures the two loops count on the tiles that hold one to count
countNearby(tiles) == IF tiles >= MaxNearby THEN MaxNearby ELSE tiles

\* a battle instinct that starts above five creatures
battleInstinctAboveFive(creaturesNearby) ==
    IF creaturesNearby > 5
    THEN [melee |-> 1 * (creaturesNearby - 4),
          shield |-> 6 * (creaturesNearby - 4)]
    ELSE [melee |-> 0, shield |-> 0]

\* the major stats checkWheelOfDestinyBattleInstinct leaves for the count
battleInstinct(creaturesNearby) ==
    IF creaturesNearby >= 5
    THEN [melee |-> (1 * (creaturesNearby - 4)) % 65536,
          shield |-> (6 * (creaturesNearby - 4)) % 65536]
    ELSE [melee |-> 0, shield |-> 0]

\* checkWheelOfDestinyBattleInstinct(), called by addInFightTicks when the
\* timer has run out; tiles is the number of tiles around the player with a
\* creature that is neither the player nor a summon of the player
PlayerCheckBattleInstinct ==
    \E tiles \in 0..NearbyTiles :
        LET creaturesNearby == countNearby(tiles)
            stats == battleInstinct(creaturesNearby)
        IN  /\ online
            /\ wheelOnThinkTimer < now
            /\ wheelOnThinkTimer' = now + 2000
            /\ wheelOfDestinyCreaturesNearby' =
                  IF creaturesNearby >= 5 THEN creaturesNearby ELSE 0
            /\ wheelMajorStats' = stats
            /\ instinct' = [op |-> "checkWheelOfDestinyBattleInstinct",
                            creaturesNearby |-> creaturesNearby,
                            updateClient |-> stats # wheelMajorStats]
            /\ UNCHANGED <<besideWheel, now>>

\* time passes
WheelClock ==
    /\ now < StartTime + (WheelTicks * WheelTick)
    /\ now' = now + WheelTick
    /\ instinct' = [op |-> "time", creaturesNearby |-> 0,
                    updateClient |-> FALSE]
    /\ UNCHANGED <<besideWheel, wheelMajorStats,
                   wheelOfDestinyCreaturesNearby, wheelOnThinkTimer>>

InitWheel ==
    /\ InventoryAtRest
    /\ playerFlags = {}
    /\ ProgressionAtRest
    /\ SchedulerAtRest
    /\ ThinkAtRest
    /\ HitAtRest
    /\ AccountAtRest

NextWheel ==
    \/ PlayerCheckBattleInstinct
    \/ WheelClock

SpecWheel == InitWheel /\ [][NextWheel]_vars

\* C36 as stated: checkWheelOfDestinyBattleInstinct, with n the number of
\* creatures counted in the 3x3 neighbourhood (0..8), sets the melee major
\* stat to n-4 and the shield major stat to 6*(n-4) only when n is above 5,
\* and sets both to 0 for every smaller n.
C36_AboveFive ==
    instinct.op = "checkWheelOfDestinyBattleInstinct" =>
        LET n == instinct.creaturesNearby IN
        /\ n \in 0..8
        /\ n > 5 => wheelMajorStats = [melee |-> n - 4, shield |-> 6 * (n - 4)]
        /\ n <= 5 => wheelMajorStats = [melee |-> 0, shield |-> 0]

\* C36: checkWheelOfDestinyBattleInstinct, with n the number of creatures
\* counted in the 3x3 neighbourhood (0..8), sets the melee major stat to n-4
\* and the shield major stat to 6*(n-4) when n is 5 or more, and sets both
\* to 0 for every smaller n.
C36_FiveOrMore ==
    instinct.op = "checkWheelOfDestinyBattleInstinct" =>
        LET n == instinct.creaturesNearby IN
        /\ n \in 0..8
        /\ n >= 5 => wheelMajorStats = [melee |-> n - 4, shield |-> 6 * (n - 4)]
        /\ n < 5 => wheelMajorStats = [melee |-> 0, shield |-> 0]

\* five creatures around the player: one melee and six shield
C36_Witness ==
    /\ instinct.op = "checkWheelOfDestinyBattleInstinct"
    /\ instinct.creaturesNearby = 5
    /\ wheelMajorStats = [melee |-> 1, shield |-> 6]
    /\ instinct.updateClient

-----------------------------------------------------------------------------
(* The level against the experience, over addExperience and removeExperience *)

\* the level curve has no further level above lv
Plateaued(lv) == getExpForLevel(lv) >= getExpForLevel(lv + 1)

\* C37: after any sequence of addExperience and removeExperience from a
\* consistent state the level matches the experience: the experience is at
\* least getExpForLevel(level) and, unless the curve has plateaued, below
\* getExpForLevel(level + 1); the level is at least 1 and the experience at
\* least 0
C37_LevelMatchesExperience ==
    /\ getExpForLevel(level) <= experience
    /\ Plateaued(level) \/ experience < getExpForLevel(level + 1)
    /\ level >= 1
    /\ experience >= 0

\* removeExperience has taken more than one level, with experience left
C37_Witness ==
    /\ lastOp.op = "removeExperience"
    /\ lastOp.sendStats = 1
    /\ lastOp.oldLevel >= level + 2
    /\ experience > 0

-----------------------------------------------------------------------------
(* Levels gained and lost again: addExperience, removeExperience and death *)
(* of a player with a vocation, up to level 10                             *)

\* the amounts added and removed: 4200 is level 8, 6400 level 9, 9300 level 10
LevelAmounts == {2200, 3000, 4200}
\* the most experience the player is given
MaxLevelExperience == 9600
\* the number of addExperience, removeExperience and death calls followed
MaxLevelCalls == 5

besideLevels == <<classicSlots, playerFlags, inventory, itemCount, inventoryWeight,
                  q, destVars, vocation, skull, skillLoss, schedVars, thinkVars,
                  hitVars, removeVars, regVars, ownVars, rewardVars, refVars,
                  openVars, tradeVars, armed, wheelVars,
                  warning, skullTime>>

\* level, healthMax, manaMax and capacity, as a call finds them
Standing == [level |-> level, healthMax |-> healthMax, manaMax |-> manaMax,
             capacity |-> capacity]

\* addExperience(source, exp), the gain hook leaving exp unchanged
LevelsAddExperience ==
    \E exp \in LevelAmounts :
        LET currLevelExp == getExpForLevel(level)
            nextLevelExp == getExpForLevel(level + 1)
            gained == experience + exp
            st == GainLevels([level |-> level, healthMax |-> healthMax,
                              health |-> health, manaMax |-> manaMax, mana |-> mana,
                              capacity |-> capacity, curr |-> currLevelExp,
                              next |-> nextLevelExp], gained)
        IN  /\ trip.n < MaxLevelCalls
            /\ experience + exp <= MaxLevelExperience
            /\ currLevelExp < nextLevelExp
            /\ experience' = gained
            /\ level' = st.level
            /\ healthMax' = st.healthMax
            /\ manaMax' = st.manaMax
            /\ capacity' = st.capacity
            /\ health' = restoreVitals(st.level # level, st.healthMax, st.health)
            /\ mana' = restoreVitals(st.level # level, st.manaMax, st.mana)
            /\ levelPercent' = LevelPercent(gained, st.curr, st.next)
            /\ lastOp' = [op |-> "addExperience", oldLevel |-> level,
                          sendStats |-> 1]
            /\ trip' = [phase |-> "gained", n |-> trip.n + 1, x |-> exp,
                        from |-> Standing, top |-> st.level]
            /\ UNCHANGED <<besideLevels, blessings, skills, magic>>

\* removeExperience(exp), the loss hook leaving exp unchanged
LevelsRemoveExperience ==
    \E exp \in LevelAmounts :
        LET left == Max(0, experience - exp)
            st == LoseLevels([level |-> level, healthMax |-> healthMax,
                              manaMax |-> manaMax, capacity |-> capacity,
                              curr |-> getExpForLevel(level)], left)
        IN  /\ trip.n < MaxLevelCalls
            /\ experience # 0
            /\ experience' = left
            /\ level' = st.level
            /\ healthMax' = st.healthMax
            /\ manaMax' = st.manaMax
            /\ capacity' = st.capacity
            /\ health' = restoreVitals(st.level # level, st.healthMax, health)
            /\ mana' = restoreVitals(st.level # level, st.manaMax, mana)
            /\ levelPercent' =
                 LevelPercent(left, st.curr, getExpForLevel(st.level + 1))
            /\ lastOp' = [op |-> "removeExperience", oldLevel |-> level,
                          sendStats |-> 1]
            /\ trip' = IF trip.phase = "gained" /\ trip.x = exp
                       THEN [phase |-> "returned", n |-> trip.n + 1, x |-> exp,
                             from |-> trip.from, top |-> trip.top]
                       ELSE [phase |-> "lost", n |-> trip.n + 1]
            /\ UNCHANGED <<besideLevels, blessings, skills, magic>>

\* a hit that takes all the health left
LevelsDrainHealth ==
    /\ health > 0
    /\ trip.n < MaxLevelCalls
    /\ health' = 0
    /\ lastOp' = [op |-> "drainHealth", oldLevel |-> level, sendStats |-> 1]
    /\ UNCHANGED <<besideLevels, level, experience, levelPercent, healthMax, mana,
                   manaMax, capacity, blessings, skills, magic, trip>>

\* death(lastHitCreature), once the health is gone
LevelsDeath ==
    \E entries \in DamageMaps, lastHitIsPlayer \in BOOLEAN, charm \in BOOLEAN :
        /\ health = 0
        /\ trip.n < MaxLevelCalls
        /\ skillLoss
        /\ DeathWithSkillLoss(entries, lastHitIsPlayer, charm, FALSE)
        /\ trip' = [phase |-> "died", n |-> trip.n + 1, from |-> Standing]
        /\ UNCHANGED <<classicSlots, playerFlags, inventory, itemCount,
                       inventoryWeight, q, destVars, vocation, skull, schedVars,
                       thinkVars, hitVars, removeVars, regVars, ownVars,
                       rewardVars, refVars, openVars, tradeVars, armed, wheelVars,
                  warning, skullTime>>

InitLevels ==
    /\ ProgressionStart
    /\ vocation # "NONE"
    /\ skull = "NONE"
    /\ blessings = {}
    /\ skillLoss

NextLevels ==
    \/ LevelsAddExperience
    \/ LevelsRemoveExperience
    \/ LevelsDrainHealth
    \/ LevelsDeath

SpecLevels == InitLevels /\ [][NextLevels]_vars

\* what addExperience adds on reaching the levels above lo up to hi
RECURSIVE GainsOf(_, _, _)
GainsOf(gain, lo, hi) ==
    IF hi <= lo THEN 0
    ELSE VocationInfo[GainVocation(hi)][gain] + GainsOf(gain, lo, hi - 1)

\* C38: level gain and level loss are symmetric for a player with a
\* vocation: after addExperience(x) followed by removeExperience(x) the
\* level, healthMax, manaMax and capacity are the ones before the gain, also
\* when the levels crossed include 8 to 9; and death takes for each level
\* it removes what addExperience added for that level
C38_GainAndLossSymmetric ==
    /\ trip.phase = "returned" => Standing = trip.from
    /\ trip.phase = "died" =>
         /\ trip.from.healthMax - healthMax = GainsOf("hpGain", level, trip.from.level)
         /\ trip.from.manaMax - manaMax = GainsOf("manaGain", level, trip.from.level)
         /\ trip.from.capacity - capacity = GainsOf("capGain", level, trip.from.level)

\* the same amount was added and removed, from level 8 to level 9 and back
C38_Witness ==
    /\ trip.phase = "returned"
    /\ trip.from.level = 8
    /\ trip.top = 9
    /\ level = 8

-----------------------------------------------------------------------------
(* The idle warning and the idle kick, over think intervals of any length *)

\* the intervals onThink is called with: the one creatures think at, and one
\* that does not divide KICK_AFTER_MINUTES minutes
IdleIntervals == {ThinkInterval, 7 * ThinkInterval}

besideWarning == <<removeVars, regVars, ownVars, rewardVars, refVars, openVars,
                   tradeVars, armed, wheelVars, trip, skullTime>>

\* onThink(interval), with the warning remembered
PlayerOnThinkOfAnyInterval ==
    \E interval \in IdleIntervals, allowed \in BOOLEAN :
        /\ onThink(interval, allowed)
        /\ warning' = (warning \/ think'.warned)
        /\ UNCHANGED besideWarning

\* onThink(EVENT_CREATURE_THINK_INTERVAL), as death() calls it
PlayerDeathOnThink ==
    \E allowed \in BOOLEAN :
        /\ onThink(ThinkInterval, allowed)
        /\ warning' = (warning \/ think'.warned)
        /\ UNCHANGED besideWarning

\* resetIdleTime()
PlayerResetIdleTimeAndWarning ==
    /\ online
    /\ idleTime > 0
    /\ idleTime' = 0
    /\ warning' = FALSE
    /\ think' = [op |-> "resetIdleTime"]
    /\ UNCHANGED <<invVars, destVars, progVars, schedVars, hitVars, besideWarning,
                   msgVars, killVars, connVars>>

\* a player with a client who stands idle, on any tile
InitWarning ==
    /\ InitIdle
    /\ client
    /\ ~accessPlayer
    /\ ~exerciseTraining

NextWarning ==
    \/ PlayerOnThinkOfAnyInterval
    \/ PlayerDeathOnThink
    \/ PlayerResetIdleTimeAndWarning

SpecWarning == InitWarning /\ [][NextWarning]_vars

-----------------------------------------------------------------------------
(* The time a red or black skull is worn: the skull time addUnjustifiedDead *)
(* sets against the skull time onThink takes off                            *)

\* a day, in milliseconds
DayMs == 24 * 60 * 60 * 1000
\* the think intervals followed at once: half a day, a whole number of seconds
SkullIntervals == {DayMs \div 2}
\* the days of think intervals followed after a skull is given
MaxSkullDays == 3

besideSkullTime == <<removeVars, regVars, ownVars, rewardVars, refVars, openVars,
                     tradeVars, armed, wheelVars, trip, warning>>

\* the days RED_SKULL_DURATION or BLACK_SKULL_DURATION gives the skull
skullDays(sk) == IF sk = "BLACK" THEN BlackSkullDuration ELSE RedSkullDuration

\* addUnjustifiedDead(attacked), with the skull it gives remembered
PlayerAddUnjustifiedDeadTimed ==
    \E self \in BOOLEAN :
        /\ addUnjustifiedDead(self)
        /\ skullTime' =
             IF think'.recorded /\ think'.skullBefore # "BLACK"
                /\ skullTicks' = skullDays(skull') * 24 * 60 * 60 * 1000
                /\ skull' \in {"RED", "BLACK"}
             THEN [assigned |-> TRUE, days |-> skullDays(skull'), elapsed |-> 0]
             ELSE skullTime
        /\ UNCHANGED besideSkullTime

\* onThink(interval), with the intervals since the skull was given added up
PlayerOnThinkTimed ==
    \E interval \in SkullIntervals, allowed \in BOOLEAN :
        /\ skullTime.assigned => skullTime.elapsed + interval <= MaxSkullDays * DayMs
        /\ onThink(interval, allowed)
        /\ skullTime' = IF skullTime.assigned
                        THEN [skullTime EXCEPT !.elapsed = @ + interval]
                        ELSE skullTime
        /\ UNCHANGED besideSkullTime

\* a player without a skull on a tile without logout, who kills and fights
InitSkullTime ==
    /\ InitSkull
    /\ skull = "NONE"
    /\ worldType = "PVP"

NextSkullTime ==
    \/ PlayerAddUnjustifiedDeadTimed
    \/ PlayerAddInFight
    \/ PlayerOnEndCondition
    \/ PlayerOnThinkTimed

SpecSkullTime == InitSkullTime /\ [][NextSkullTime]_vars

\* C40: skullTicks is set and taken off in the same unit: a red or black
\* skull given by addUnjustifiedDead for D days is cleared by the onThink
\* that finds the think intervals since then at D x 86 400 000 ms or more,
\* the player having no INFIGHT condition
C40_SkullTimeUnits ==
    (/\ think.op = "onThink"
     /\ skullTime.assigned
     /\ ~inFight
     /\ skullTime.elapsed >= skullTime.days * DayMs) =>
        skull = "NONE"

\* the think that brings the intervals since a red skull was given to a day
C40_Witness ==
    /\ think.op = "onThink"
    /\ skullTime.assigned
    /\ skullTime.days = RedSkullDuration
    /\ skullTime.elapsed = RedSkullDuration * DayMs
    /\ think.skullBefore = "RED"
    /\ ~inFight

=============================================================================
